---- MODULE Spec2Model ----
(***************************************************************************)
(* A model of lib/covenants/record.js: the HSKRecord binary codec, its     *)
(* JSON form and the DNS synthesizer.                                       *)
(*                                                                          *)
(* Buffers are sequences of bytes (0..255).  Strings are sequences of      *)
(* character codes (ASCII).  The text forms produced by the external       *)
(* address libraries (binet's IP/onion, bstring's base58) are kept         *)
(* abstract: a marker code beyond the byte range followed by the raw       *)
(* bytes, so that text and raw bytes are different values and the          *)
(* conversions between them are real conversions.                          *)
(*                                                                          *)
(* Every reader returns [ok, v, p]: ok = FALSE is a thrown error, v the    *)
(* value read and p the offset of the next unread byte (1-based).          *)
(***************************************************************************)
EXTENDS Integers, Sequences, FiniteSets, TLC

\* ------------------------------------------------------------------------
\* Constants (record.js 50-79)
\* ------------------------------------------------------------------------

ICANNP == <<46, 105>>

HSKP == <<46, 104>>

INET4 == 1

INET6 == 2

ONION == 3

ONIONNG == 5

INAME == 6

HNAME == 7

CANONICAL == 8

DELEGATE == 9

NS == 10

SERVICE == 11

URL == 12

EMAIL == 13

TEXT == 14

LOCATION == 15

MAGNET == 16

DS == 17

TLS == 18

SSH == 19

PGP == 20

ADDR == 21

\* ------------------------------------------------------------------------
\* Sequence helpers
\* ------------------------------------------------------------------------

Range(s) == {s[i] : i \in DOMAIN s}

IndexOf(s, x) == CHOOSE i \in DOMAIN s : s[i] = x /\ \A j \in 1..(i - 1) : s[j] # x

RECURSIVE Flatten(_)
Flatten(ss) == IF ss = <<>> THEN <<>> ELSE Head(ss) \o Flatten(Tail(ss))

EndsWith(s, suf) ==
    /\ Len(s) >= Len(suf)
    /\ SubSeq(s, Len(s) - Len(suf) + 1, Len(s)) = suf

\* str.slice(0, -n): drops the last n characters (the empty string when the
\* string is shorter).
SliceEnd(s, n) == IF Len(s) <= n THEN <<>> ELSE SubSeq(s, 1, Len(s) - n)

\* ------------------------------------------------------------------------
\* bufio writer and reader primitives (external library).  writeU16 and
\* readU16 are little-endian, readU16BE is big-endian; a write keeps the low
\* bits of its argument.
\* ------------------------------------------------------------------------

Fail(p) == [ok |-> FALSE, v |-> <<>>, p |-> p]

Ok(v, p) == [ok |-> TRUE, v |-> v, p |-> p]

\* The next read of a reader: F on the value and the offset of a successful
\* read, the exception of a failed one.
Then(r, F(_, _)) == IF r.ok THEN F(r.v, r.p) ELSE Fail(r.p)

writeU8(n) == <<n % 256>>

writeU16(n) == <<n % 256, (n \div 256) % 256>>

writeU32(n) == <<n % 256, (n \div 256) % 256, (n \div 65536) % 256, (n \div 16777216) % 256>>

Left(b, p) == Len(b) - p + 1

readU8(b, p) == IF Left(b, p) < 1 THEN Fail(p) ELSE Ok(b[p], p + 1)

readU16(b, p) ==
    IF Left(b, p) < 2 THEN Fail(p) ELSE Ok(b[p] + 256 * b[p + 1], p + 2)

readU16BE(b, p) ==
    IF Left(b, p) < 2 THEN Fail(p) ELSE Ok(256 * b[p] + b[p + 1], p + 2)

readU32(b, p) ==
    IF Left(b, p) < 4 THEN Fail(p)
    ELSE Ok(b[p] + 256 * b[p + 1] + 65536 * b[p + 2] + 16777216 * b[p + 3], p + 4)

readBytes(b, p, n) ==
    IF Left(b, p) < n THEN Fail(p) ELSE Ok(SubSeq(b, p, p + n - 1), p + n)

\* readString('ascii', n): the decoder clears the high bit of every byte.
readAscii(b, p, n) ==
    IF Left(b, p) < n THEN Fail(p)
    ELSE Ok([i \in 1..n |-> b[p + i - 1] % 128], p + n)

\* ------------------------------------------------------------------------
\* Hex strings (Buffer.toString('hex'), Buffer.from(s, 'hex'))
\* ------------------------------------------------------------------------

HexChar(n) == IF n < 10 THEN 48 + n ELSE 87 + n

\* The value of a digit character, or -1: 0-9, a-f, A-F.
DigitVal(c) ==
    IF c >= 48 /\ c <= 57 THEN c - 48
    ELSE IF c >= 97 /\ c <= 102 THEN c - 87
    ELSE IF c >= 65 /\ c <= 70 THEN c - 55
    ELSE 0 - 1

\* The hex decoder looks a character up by the low byte of its code unit.
HexVal(c) == DigitVal(c % 256)

HexEncode(b) ==
    [i \in 1..(2 * Len(b)) |->
        IF i % 2 = 1 THEN HexChar(b[(i + 1) \div 2] \div 16)
        ELSE HexChar(b[i \div 2] % 16)]

\* The decoder stops at the first pair that is not two hex digits and drops
\* an odd trailing character.
HexPairs(s) ==
    LET n == Len(s) \div 2
        good(k) == \A i \in 1..(2 * k) : HexVal(s[i]) >= 0
    IN  CHOOSE k \in 0..n : good(k) /\ (k = n \/ ~good(k + 1))

HexDecode(s) ==
    [i \in 1..HexPairs(s) |-> 16 * HexVal(s[2 * i - 1]) + HexVal(s[2 * i])]

\* (x >>> 0) === x for a number x: an integer of 0 .. 2^32 - 1.
IsUint32(x) == x >= 0 /\ x \div 65536 <= 65535

IsDigits(s) == \A i \in DOMAIN s : s[i] >= 48 /\ s[i] <= 57

\* A non-negative integer of any size, as six digits of base 65536, least
\* significant first, followed by a flag that is 1 once the integer no
\* longer fits them.
BigZero == <<0, 0, 0, 0, 0, 0, 0>>

\* An integer of 2^96 or more.
BigHuge == <<0, 0, 0, 0, 0, 0, 1>>

\* n * k + d, for k of at most 14 bits and d of at most 16 bits.
RECURSIVE BigMulAdd(_, _, _)
BigMulAdd(n, k, d) ==
    IF Len(n) = 1 THEN <<IF n[1] > 0 \/ d > 0 THEN 1 ELSE 0>>
    ELSE <<(n[1] * k + d) % 65536>> \o BigMulAdd(Tail(n), k, (n[1] * k + d) \div 65536)

\* The number written by a few digits s in the given base.
RECURSIVE SmallNumber(_, _)
SmallNumber(s, base) ==
    IF s = <<>> THEN 0
    ELSE base * SmallNumber(SubSeq(s, 1, Len(s) - 1), base) + DigitVal(s[Len(s)])

\* The integer written by the digits s in the given base, taken group
\* digits at a time from the right (base ^ group has at most 14 bits).
RECURSIVE BigOfDigits(_, _, _)
BigOfDigits(s, base, group) ==
    IF Len(s) <= group THEN BigMulAdd(BigZero, 1, SmallNumber(s, base))
    ELSE BigMulAdd(BigOfDigits(SubSeq(s, 1, Len(s) - group), base, group),
                   base ^ group,
                   SmallNumber(SubSeq(s, Len(s) - group + 1, Len(s)), base))

\* The number of bits of n (0 for 0).
BigBitLen(n) ==
    LET digits == 1..(Len(n) - 1)
        top == IF \E i \in digits : n[i] # 0
               THEN CHOOSE i \in digits : n[i] # 0 /\ \A j \in digits : j > i => n[j] = 0
               ELSE 0
    IN  IF top = 0 THEN 0
        ELSE 16 * (top - 1)
             + (CHOOSE k \in 1..16 : n[top] < 2 ^ k /\ n[top] >= 2 ^ (k - 1))

\* Bit k (from 0) of n.
BigBit(n, k) == (n[(k \div 16) + 1] \div (2 ^ (k % 16))) % 2

\* StrWhiteSpaceChar: white space and line terminators.
IsJSSpace(c) ==
    \/ c \in {9, 10, 11, 12, 13, 32, 160, 5760, 8232, 8233, 8239, 8287, 12288, 65279}
    \/ (c >= 8192 /\ c <= 8202)

Lowest(S) == CHOOSE i \in S : \A j \in S : i <= j

Highest(S) == CHOOSE i \in S : \A j \in S : i >= j

TrimJS(s) ==
    LET keep == {i \in DOMAIN s : ~IsJSSpace(s[i])}
    IN  IF keep = {} THEN <<>> ELSE SubSeq(s, Lowest(keep), Highest(keep))

\* The index of the first character of s that is in S, or 0.
FirstOf(s, S) ==
    IF \E i \in DOMAIN s : s[i] \in S
    THEN Lowest({i \in DOMAIN s : s[i] \in S})
    ELSE 0

\* s without its leading zeros.
StripZeros(s) ==
    IF \A i \in DOMAIN s : s[i] = 48 THEN <<>>
    ELSE SubSeq(s, Lowest({i \in DOMAIN s : s[i] # 48}), Len(s))

\* The decimal number s, or cap if it is larger.
DecimalUpTo(s, cap) ==
    IF Len(StripZeros(s)) > 9 \/ SmallNumber(StripZeros(s), 10) > cap THEN cap
    ELSE SmallNumber(StripZeros(s), 10)

\* A number as Number(string) reads it: finite is false for NaN and for an
\* infinity; neg is the sign; n is floor(|x| * 2^64) as ten digits of base
\* 65536, least significant first, and a flag that is 1 when |x| >= 2^96;
\* sticky is 1 when |x| * 2^64 has a fraction.
NotFinite == [finite |-> FALSE, neg |-> FALSE, n |-> <<0, 0, 0, 0>> \o BigZero, sticky |-> 0]

JSInteger(n) == [finite |-> TRUE, neg |-> FALSE, n |-> <<0, 0, 0, 0>> \o n, sticky |-> 0]

\* f * 65536 + c for a fraction f given as digits of base 10000, least
\* significant first; the last digit of the result is the integer part.
RECURSIVE FracTimes(_, _)
FracTimes(f, c) ==
    IF f = <<>> THEN <<c>>
    ELSE <<(f[1] * 65536 + c) % 10000>> \o FracTimes(Tail(f), (f[1] * 65536 + c) \div 10000)

\* The first n digits of base 65536 of the fraction f, least significant
\* first, after a flag that is 1 when more of the fraction is left.
RECURSIVE FracBits(_, _)
FracStep(g, n) == FracBits(SubSeq(g, 1, Len(g) - 1), n - 1) \o <<g[Len(g)]>>

FracBits(f, n) ==
    IF n = 0 THEN <<IF \E i \in DOMAIN f : f[i] # 0 THEN 1 ELSE 0>>
    ELSE FracStep(FracTimes(f, 0), n)

\* 0.d * 10^point for significant digits d (the first is not 0) and
\* 0 <= point <= 27: the integer part has point digits; 56 digits of the
\* fraction are kept and later ones only make the result inexact.
JSFixed(d, point, neg) ==
    LET int == [i \in 1..point |-> IF i <= Len(d) THEN d[i] ELSE 48]
        frac == [i \in 1..56 |-> IF point + i <= Len(d) THEN d[point + i] ELSE 48]
        f == FracBits([i \in 1..14 |->
                          SmallNumber(SubSeq(frac, 4 * (14 - i) + 1, 4 * (14 - i) + 4), 10)],
                      4)
    IN  [finite |-> TRUE, neg |-> neg,
         n |-> Tail(f) \o BigOfDigits(int, 10, 4),
         sticky |-> IF f[1] = 1 \/ \E i \in (point + 57)..Len(d) : d[i] # 48
                    THEN 1 ELSE 0]

\* StrUnsignedDecimalLiteral without Infinity: digits, an optional point
\* and an optional exponent part; at least one digit around the point.
JSDecimal(u, neg) ==
    LET e == FirstOf(u, {101, 69})
        m == IF e = 0 THEN u ELSE SubSeq(u, 1, e - 1)
        x == IF e = 0 THEN <<>> ELSE SubSeq(u, e + 1, Len(u))
        dot == FirstOf(m, {46})
        int == IF dot = 0 THEN m ELSE SubSeq(m, 1, dot - 1)
        frac == IF dot = 0 THEN <<>> ELSE SubSeq(m, dot + 1, Len(m))
        xdigits == IF x # <<>> /\ x[1] \in {43, 45} THEN Tail(x) ELSE x
        xabs == DecimalUpTo(xdigits, Len(u) + 100)
        exp == IF x # <<>> /\ x[1] = 45 THEN 0 - xabs ELSE xabs
        d == StripZeros(int \o frac)
        point == Len(d) - Len(frac) + exp
    IN  IF ~(/\ IsDigits(int) /\ IsDigits(frac) /\ Len(int) + Len(frac) >= 1
             /\ (e = 0 \/ (xdigits # <<>> /\ IsDigits(xdigits))))
        THEN NotFinite
        ELSE IF d = <<>> \/ point < 0 THEN JSInteger(BigZero)
        ELSE IF point > 27 THEN JSInteger(BigHuge)
        ELSE JSFixed(d, point, neg)

\* 0x, 0o and 0b literals: at least one digit, each below the base; most
\* is the number of digits that 96 bits hold.
JSPrefixed(digits, base, group, most) ==
    IF digits = <<>> \/ \E i \in DOMAIN digits :
                            DigitVal(digits[i]) < 0 \/ DigitVal(digits[i]) >= base
    THEN NotFinite
    ELSE IF Len(StripZeros(digits)) > most THEN JSInteger(BigHuge)
    ELSE JSInteger(BigOfDigits(StripZeros(digits), base, group))

\* "Infinity"
InfinityText == <<73, 110, 102, 105, 110, 105, 116, 121>>

\* Number(s): the string is trimmed; empty is 0; then a 0x, 0o or 0b
\* literal (no sign), or an optional sign and Infinity or a decimal literal.
JSNumberTrimmed(t) ==
    IF t = <<>> THEN JSInteger(BigZero)
    ELSE IF Len(t) >= 2 /\ t[1] = 48 /\ t[2] \in {120, 88}
    THEN JSPrefixed(SubSeq(t, 3, Len(t)), 16, 3, 24)
    ELSE IF Len(t) >= 2 /\ t[1] = 48 /\ t[2] \in {111, 79}
    THEN JSPrefixed(SubSeq(t, 3, Len(t)), 8, 4, 32)
    ELSE IF Len(t) >= 2 /\ t[1] = 48 /\ t[2] \in {98, 66}
    THEN JSPrefixed(SubSeq(t, 3, Len(t)), 2, 8, 96)
    ELSE IF t[1] \in {43, 45}
    THEN IF Tail(t) = InfinityText THEN NotFinite ELSE JSDecimal(Tail(t), t[1] = 45)
    ELSE IF t = InfinityText THEN NotFinite
    ELSE JSDecimal(t, FALSE)

JSNumber(s) == JSNumberTrimmed(TrimJS(s))

\* Bit k of n rounded to the double nearest to it: the bits below bit drop
\* are cleared and, when up, one is added at bit drop.
RoundedBit(n, drop, up, k) ==
    IF k < drop THEN 0
    ELSE (BigBit(n, k) + (IF up /\ \A i \in drop..(k - 1) : BigBit(n, i) = 1 THEN 1 ELSE 0)) % 2

\* The number made of the count bits from bit k on.
RECURSIVE RoundedBits(_, _, _, _, _)
RoundedBits(n, drop, up, k, count) ==
    IF count = 0 THEN 0
    ELSE RoundedBit(n, drop, up, k) + 2 * RoundedBits(n, drop, up, k + 1, count - 1)

\* Round to nearest, ties to even: up when the first dropped bit is set and
\* a later one is, or the result is inexact, or the last kept bit is set.
RoundsUp(n, sticky, drop) ==
    /\ BigBit(n, drop - 1) = 1
    /\ \/ sticky = 1
       \/ \E i \in 0..(drop - 2) : BigBit(n, i) = 1
       \/ BigBit(n, drop) = 1

\* ToUint32(x) >>> 1 for the double nearest to x, whose mantissa has 53
\* bits.  The integer part starts at bit 64 of n; bit0 is its lowest bit and
\* half its bits 1 to 31.  ToUint32 of a negative number -i is 2^32 - i.
Uint32Shr1Parts(neg, bit0, half) ==
    IF ~neg THEN half
    ELSE IF bit0 = 0 /\ half = 0 THEN 0
    ELSE 2147483647 - (IF bit0 = 1 THEN half ELSE half - 1)

Uint32Shr1Dropping(x, drop) ==
    Uint32Shr1Parts(x.neg,
                    RoundedBit(x.n, drop, RoundsUp(x.n, x.sticky, drop), 64),
                    RoundedBits(x.n, drop, RoundsUp(x.n, x.sticky, drop), 80, 16) * 32768
                    + RoundedBits(x.n, drop, RoundsUp(x.n, x.sticky, drop), 65, 15))

Uint32Shr1(x) ==
    IF ~x.finite \/ x.n[Len(x.n)] > 0 \/ BigBitLen(x.n) < 64 \/ BigBitLen(x.n) - 53 >= 96
    THEN 0
    ELSE Uint32Shr1Dropping(x, BigBitLen(x.n) - 53)

\* s >>> 1 for a string s.
JSShiftRight1(s) == Uint32Shr1(JSNumber(s))

\* ------------------------------------------------------------------------
\* The string compressor (./compress: Compressor, Decompressor).  A
\* compressor is the table of the strings added to it, in insertion order
\* and without duplicates.  The table is written as a count byte followed
\* by the length-prefixed strings.  A compressed string is a size byte
\* followed by that many tokens: a token with the high bit set is a
\* reference to the table entry of that index, any other token is a
\* literal character.  A string of the table is written as one reference.
\* ------------------------------------------------------------------------

NewCompressor == <<>>

Add(c, s) == IF s \in Range(c) THEN c ELSE Append(c, s)

RECURSIVE AddAll(_, _)
AddAll(c, ss) == IF ss = <<>> THEN c ELSE AddAll(Add(c, Head(ss)), Tail(ss))

CSize(c, s) == IF s \in Range(c) THEN 2 ELSE 1 + Len(s)

CWrite(c, s) ==
    IF s \in Range(c) THEN <<1, 128 + (IndexOf(c, s) - 1)>>
    ELSE <<Len(s)>> \o s

CTableSize(c) == 1 + Len(Flatten([i \in DOMAIN c |-> <<Len(c[i])>> \o c[i]]))

CTableWrite(c) == <<Len(c)>> \o Flatten([i \in DOMAIN c |-> <<Len(c[i])>> \o c[i]])

RECURSIVE ReadWords(_, _, _, _)
ReadWords(b, p, n, acc) ==
    IF n = 0 THEN Ok(acc, p)
    ELSE Then(readU8(b, p), LAMBDA l, p1 :
         Then(readAscii(b, p1, l), LAMBDA w, p2 :
         ReadWords(b, p2, n - 1, Append(acc, w))))

\* Decompressor.fromReader: the table at the head of the body.
DTableRead(b, p) ==
    Then(readU8(b, p), LAMBDA n, p1 : ReadWords(b, p1, n, <<>>))

RECURSIVE ReadTokens(_, _, _, _, _)
ReadTokens(d, b, p, n, acc) ==
    IF n = 0 THEN Ok(acc, p)
    ELSE Then(readU8(b, p), LAMBDA t, p1 :
         IF t >= 128
         THEN IF t - 128 >= Len(d) THEN Fail(p1)
              ELSE ReadTokens(d, b, p1, n - 1, acc \o d[t - 128 + 1])
         ELSE ReadTokens(d, b, p1, n - 1, Append(acc, t)))

\* d.read(br): one compressed string.
DRead(d, b, p) ==
    Then(readU8(b, p), LAMBDA n, p1 : ReadTokens(d, b, p1, n, <<>>))

\* ipSize, ipWrite, ipRead (./compress): a 16-bit map of the positions that
\* hold a non-zero byte, followed by the non-zero bytes.
IpMask(ip) ==
    LET bit(i) == IF ip[i] # 0 THEN 1 ELSE 0
    IN  <<128 * bit(1) + 64 * bit(2) + 32 * bit(3) + 16 * bit(4)
            + 8 * bit(5) + 4 * bit(6) + 2 * bit(7) + bit(8),
          128 * bit(9) + 64 * bit(10) + 32 * bit(11) + 16 * bit(12)
            + 8 * bit(13) + 4 * bit(14) + 2 * bit(15) + bit(16)>>

ipWrite(ip) == IpMask(ip) \o SelectSeq(ip, LAMBDA x : x # 0)

ipSize(ip) == 2 + Cardinality({i \in DOMAIN ip : ip[i] # 0})

MaskBit(m, i) ==
    LET byte == IF i <= 8 THEN m[1] ELSE m[2]
        k == IF i <= 8 THEN 8 - i ELSE 16 - i
    IN  (byte \div (2 ^ k)) % 2

ipRead(b, p) ==
    Then(readBytes(b, p, 2), LAMBDA m, p1 :
    Then(readBytes(b, p1, Cardinality({i \in 1..16 : MaskBit(m, i) = 1})),
         LAMBDA r, p2 :
         Ok([i \in 1..16 |->
               IF MaskBit(m, i) = 1
               THEN r[Cardinality({j \in 1..i : MaskBit(m, j) = 1})]
               ELSE 0], p2)))

\* ------------------------------------------------------------------------
\* Address text (binet IP and onion, bstring base58: external libraries).
\* The text of an address is a marker code followed by its raw bytes.
\* ------------------------------------------------------------------------

IP4Text(raw) == <<256>> \o raw

IP6Text(raw) == <<257>> \o raw

OnionText(raw) == <<258>> \o raw

OnionNGText(raw) == <<259>> \o raw

Base58(raw) == <<260>> \o raw

\* IP.encode: 4 bytes give IPv4 text, 16 bytes IPv6 text.
IPEncode(raw) == IF Len(raw) = 4 THEN IP4Text(raw) ELSE IP6Text(raw)

\* IP.decode, onion.decode, onion.decodeNG: the raw bytes of a text.
RawOf(text) == Tail(text)

\* IP.normalize: the text of the address that the text denotes.
IPNormalize(str) == IPEncode(RawOf(str))

\* IP.getStringType
StringType(str) ==
    IF str # <<>> /\ str[1] = 256 /\ Len(str) = 5 THEN "INET4"
    ELSE IF str # <<>> /\ str[1] = 257 /\ Len(str) = 17 THEN "INET6"
    ELSE IF str # <<>> /\ str[1] = 258 /\ Len(str) = 11 THEN "ONION"
    ELSE "NAME"

\* onion.isNGString
IsNGString(str) == str # <<>> /\ str[1] = 259 /\ Len(str) = 34

\* util.isName: a DNS name of ASCII characters (or onion v3 text).
IsName(str) ==
    \/ IsNGString(str)
    \/ /\ str # <<>>
       /\ \A i \in DOMAIN str : str[i] > 32 /\ str[i] < 127

\* util.trimFQDN
TrimFQDN(str) == IF str # <<>> /\ str[Len(str)] = 46 THEN SliceEnd(str, 1) ELSE str

\* Address (../primitives/address): the text of a native address is "hs" or
\* "ts" (testnet), a marker code, the version and the hash.
AddressText(version, hash, testnet) ==
    <<IF testnet THEN 116 ELSE 104, 115, 261, version>> \o hash

AddressOk(text) ==
    /\ Len(text) >= 6
    /\ text[1] \in {104, 116}
    /\ text[2] = 115
    /\ text[3] = 261
    /\ text[4] <= 31
    /\ Len(text) - 4 <= 40

AddressVersion(text) == text[4]

AddressHash(text) == SubSeq(text, 5, Len(text))

\* ------------------------------------------------------------------------
\* Writer results: a writer either produces bytes or throws.
\* ------------------------------------------------------------------------

W(v) == [ok |-> TRUE, v |-> v]

WFail == [ok |-> FALSE, v |-> <<>>]

\* The bytes of a sequence of writes, or a throw if one of them throws.
Cat(ws) ==
    IF \A i \in DOMAIN ws : ws[i].ok
    THEN W(Flatten([i \in DOMAIN ws |-> ws[i].v]))
    ELSE WFail

\* ------------------------------------------------------------------------
\* Extra (record.js 81-132)
\* ------------------------------------------------------------------------

\* Variant that counts the length byte only.
ExtraGetSizeShort(x) == 1 + Len(x.data)

ExtraGetSize(x) == 2 + Len(x.data)

ExtraToWriter(x) == W(writeU8(x.type) \o writeU8(Len(x.data)) \o x.data)

ExtraFromReader(b, p) ==
    Then(readU8(b, p), LAMBDA t, p1 :
    Then(readU8(b, p1), LAMBDA n, p2 :
    Then(readBytes(b, p2, n), LAMBDA data, p3 :
    Ok([type |-> t, data |-> data], p3))))

ExtraToJSON(x) == [type |-> x.type, data |-> HexEncode(x.data)]

\* (json.data >>> 1) <= 255 is taken of the string itself.
ExtraFromJSON(j) ==
    IF j.type \in 0..255 /\ JSShiftRight1(j.data) <= 255
    THEN Ok([type |-> j.type, data |-> HexDecode(j.data)], 0)
    ELSE Fail(0)

\* ------------------------------------------------------------------------
\* Addr (record.js 134-229)
\* ------------------------------------------------------------------------

HSKCurrency == <<104, 115, 107>>

AddrCompress(a, c) == Add(c, a.currency)

\* Address.fromString throws on a text that is no native address.
AddrGetSize(a, c) ==
    IF a.currency = HSKCurrency
    THEN IF ~AddressOk(a.address) THEN Fail(0)
         ELSE Ok(2 + Len(AddressHash(a.address)), 0)
    ELSE Ok(CSize(c, a.currency) + 1 + Len(a.address), 0)

\* writeString(address, 'ascii') stores the low byte of each code unit.
AddrToWriter(a, c) ==
    IF a.currency = HSKCurrency
    THEN IF ~AddressOk(a.address) THEN WFail
         ELSE LET mid == IF a.address[1] = 116 THEN 64 ELSE 0
              IN  W(writeU8(128 + mid + Len(AddressHash(a.address)))
                    \o writeU8(AddressVersion(a.address))
                    \o AddressHash(a.address))
    ELSE W(CWrite(c, a.currency) \o writeU8(Len(a.address))
             \o [i \in DOMAIN a.address |-> a.address[i] % 256])

AddrFromReader(d, b, p) ==
    Then(readU8(b, p), LAMBDA len, p1 :
    IF len >= 128
    THEN Then(readU8(b, p1), LAMBDA ver, p2 :
         Then(readBytes(b, p2, len % 64), LAMBDA hash, p3 :
         Ok([currency |-> HSKCurrency,
             address |-> AddressText(ver, hash, (len \div 64) % 2 = 1)], p3)))
    ELSE Then(DRead(d, b, p1), LAMBDA cur, p2 :
         Then(readU8(b, p2), LAMBDA n, p3 :
         Then(readAscii(b, p3, n), LAMBDA a, p4 :
         Ok([currency |-> cur, address |-> a], p4)))))

AddrToString(a) == a.currency \o <<58>> \o a.address

\* str.split(':') must give exactly two parts.
AddrFromString(str) ==
    LET colons == {i \in DOMAIN str : str[i] = 58}
    IN  IF Len(str) > 512 \/ Cardinality(colons) # 1 THEN Fail(0)
        ELSE LET k == CHOOSE i \in colons : TRUE
                 currency == SubSeq(str, 1, k - 1)
                 address == SubSeq(str, k + 1, Len(str))
             IN  IF Len(currency) > 63 \/ Len(address) > 255 THEN Fail(0)
                 ELSE Ok([currency |-> currency, address |-> address], 0)

\* ------------------------------------------------------------------------
\* SSH and PGP (record.js 231-294)
\* ------------------------------------------------------------------------

SSHGetSize(x) == 2 + 1 + Len(x.fingerprint)

SSHToWriter(x) ==
    W(writeU8(x.algorithm) \o writeU8(x.type)
      \o writeU8(Len(x.fingerprint)) \o x.fingerprint)

SSHFromReader(b, p) ==
    Then(readU8(b, p), LAMBDA a, p1 :
    Then(readU8(b, p1), LAMBDA t, p2 :
    Then(readU8(b, p2), LAMBDA n, p3 :
    Then(readBytes(b, p3, n), LAMBDA f, p4 :
    Ok([algorithm |-> a, type |-> t, fingerprint |-> f], p4)))))

SSHToJSON(x) ==
    [algorithm |-> x.algorithm, type |-> x.type,
     fingerprint |-> HexEncode(x.fingerprint)]

\* (json.fingerprint >>> 1) <= 255 is taken of the string itself.
SSHFromJSON(j) ==
    IF /\ j.algorithm \in 0..255
       /\ j.type \in 0..255
       /\ JSShiftRight1(j.fingerprint) <= 255
    THEN Ok([algorithm |-> j.algorithm, type |-> j.type,
             fingerprint |-> HexDecode(j.fingerprint)], 0)
    ELSE Fail(0)

\* ------------------------------------------------------------------------
\* TLS (record.js 296-373)
\* ------------------------------------------------------------------------

TLSCompress(x, c) == Add(c, x.protocol)

TLSGetSize(x, c) == CSize(c, x.protocol) + 6 + Len(x.certificate)

TLSToWriter(x, c) ==
    W(CWrite(c, x.protocol) \o writeU16(x.port) \o writeU8(x.usage)
      \o writeU8(x.selector) \o writeU8(x.matchingType)
      \o writeU8(Len(x.certificate)) \o x.certificate)

TLSFromReader(d, b, p) ==
    Then(DRead(d, b, p), LAMBDA pr, p1 :
    Then(readU16(b, p1), LAMBDA port, p2 :
    Then(readU8(b, p2), LAMBDA usage, p3 :
    Then(readU8(b, p3), LAMBDA selector, p4 :
    Then(readU8(b, p4), LAMBDA matchingType, p5 :
    Then(readU8(b, p5), LAMBDA n, p6 :
    Then(readBytes(b, p6, n), LAMBDA cert, p7 :
    Ok([protocol |-> pr, port |-> port, usage |-> usage, selector |-> selector,
        matchingType |-> matchingType, certificate |-> cert], p7))))))))

TLSToJSON(x) ==
    [protocol |-> x.protocol, port |-> x.port, usage |-> x.usage,
     selector |-> x.selector, matchingType |-> x.matchingType,
     certificate |-> HexEncode(x.certificate)]

\* The length check is made on json.fingerprint, the value is taken from
\* json.certificate.
TLSFromJSON(j) ==
    IF /\ Len(j.protocol) <= 255
       /\ j.port \in 0..65535
       /\ j.usage \in 0..255
       /\ j.selector \in 0..255
       /\ j.matchingType \in 0..255
       /\ "fingerprint" \in DOMAIN j
       /\ Len(j["fingerprint"]) \div 2 <= 255
    THEN Ok([protocol |-> j.protocol, port |-> j.port, usage |-> j.usage,
             selector |-> j.selector, matchingType |-> j.matchingType,
             certificate |-> HexDecode(j.certificate)], 0)
    ELSE Fail(0)

\* ------------------------------------------------------------------------
\* DS (record.js 375-438)
\* ------------------------------------------------------------------------

DSGetSize(x) == 4 + 1 + Len(x.digest)

DSToWriter(x) ==
    W(writeU16(x.keyTag) \o writeU8(x.algorithm) \o writeU8(x.digestType)
      \o writeU8(Len(x.digest)) \o x.digest)

DSFromReader(b, p) ==
    Then(readU16BE(b, p), LAMBDA k, p1 :
    Then(readU8(b, p1), LAMBDA algorithm, p2 :
    Then(readU8(b, p2), LAMBDA digestType, p3 :
    Then(readU8(b, p3), LAMBDA n, p4 :
    Then(readBytes(b, p4, n), LAMBDA dg, p5 :
    Ok([keyTag |-> k, algorithm |-> algorithm, digestType |-> digestType,
        digest |-> dg], p5))))))

DSToJSON(x) ==
    [keyTag |-> x.keyTag, algorithm |-> x.algorithm,
     digestType |-> x.digestType, digest |-> HexEncode(x.digest)]

DSFromJSON(j) ==
    IF /\ j.keyTag \in 0..65535
       /\ j.algorithm \in 0..255
       /\ j.digestType \in 0..255
       /\ Len(j.digest) \div 2 <= 255
    THEN Ok([keyTag |-> j.keyTag, algorithm |-> j.algorithm,
             digestType |-> j.digestType, digest |-> HexDecode(j.digest)], 0)
    ELSE Fail(0)

\* ------------------------------------------------------------------------
\* Magnet (record.js 440-520)
\* ------------------------------------------------------------------------

MagnetCompress(x, c) == Add(c, x.nid)

MagnetGetSize(x, c) == CSize(c, x.nid) + 1 + (Len(x.nin) \div 2)

\* writeString(nin, 'hex') decodes the leading hex pairs of nin into the
\* buffer and moves the offset nin.length >>> 1 bytes on: the positions
\* after the decoded bytes are left as the buffer held them (-1 here).
MagnetToWriter(x, c) ==
    W(CWrite(c, x.nid) \o writeU8(Len(x.nin) \div 2) \o HexDecode(x.nin)
        \o [i \in 1..((Len(x.nin) \div 2) - HexPairs(x.nin)) |-> 0 - 1])

MagnetFromReader(d, b, p) ==
    Then(DRead(d, b, p), LAMBDA nid, p1 :
    Then(readU8(b, p1), LAMBDA n, p2 :
    Then(readBytes(b, p2, n), LAMBDA nin, p3 :
    Ok([nid |-> nid, nin |-> HexEncode(nin)], p3))))

\* "magnet:?xt=urn:"
MagnetPrefix == <<109, 97, 103, 110, 101, 116, 58, 63, 120, 116, 61, 117, 114, 110, 58>>

MagnetToString(x) == MagnetPrefix \o x.nid \o <<58>> \o x.nin

\* The text after the first "xt=urn:" is split at every ':' and '&'; the
\* first two parts are nid and nin.
FindXT(str) ==
    LET xt == SubSeq(MagnetPrefix, 9, 15)
        at == {i \in 1..(Len(str) - 6) : SubSeq(str, i, i + 6) = xt}
    IN  IF at = {} THEN 0 ELSE CHOOSE i \in at : \A j \in at : i <= j

MagnetFromString(str) ==
    LET index == FindXT(str)
    IN  IF Len(str) > 1024 \/ index <= 1 THEN Fail(0)
        ELSE IF str[index - 1] \notin {63, 38} THEN Fail(0)
        ELSE LET rest == SubSeq(str, index + 7, Len(str))
                 seps == {i \in DOMAIN rest : rest[i] \in {58, 38}}
             IN  IF seps = {} THEN Fail(0)
                 ELSE LET s1 == CHOOSE i \in seps : \A j \in seps : i <= j
                          later == {i \in seps : i > s1}
                          s2 == IF later = {} THEN Len(rest) + 1
                                ELSE CHOOSE i \in later : \A j \in later : i <= j
                          nid == SubSeq(rest, 1, s1 - 1)
                          nin == SubSeq(rest, s1 + 1, s2 - 1)
                      IN  IF Len(nid) > 255 \/ Len(nin) > 255 THEN Fail(0)
                          ELSE Ok([nid |-> nid, nin |-> nin], 0)

\* ------------------------------------------------------------------------
\* Location (record.js 629-730)
\* ------------------------------------------------------------------------

LocationGetSize == 16

LocationToWriter(x) ==
    W(writeU8(x.version) \o writeU8(x.size) \o writeU8(x.horizPre)
      \o writeU8(x.vertPre) \o writeU32(x.latitude) \o writeU32(x.longitude)
      \o writeU32(x.altitude))

LocationFromReader(b, p) ==
    Then(readU8(b, p), LAMBDA version, p1 :
    Then(readU8(b, p1), LAMBDA size, p2 :
    Then(readU8(b, p2), LAMBDA horizPre, p3 :
    Then(readU8(b, p3), LAMBDA vertPre, p4 :
    Then(readU32(b, p4), LAMBDA lat, p5 :
    Then(readU32(b, p5), LAMBDA lon, p6 :
    Then(readU32(b, p6), LAMBDA alt, p7 :
    Ok([version |-> version, size |-> size, horizPre |-> horizPre,
        vertPre |-> vertPre, latitude |-> lat, longitude |-> lon,
        altitude |-> alt], p7))))))))

LocationToJSON(x) == x

LocationFromJSON(j) ==
    IF /\ j.version \in 0..255
       /\ j.size \in 0..255
       /\ j.horizPre \in 0..255
       /\ j.vertPre \in 0..255
       /\ IsUint32(j.latitude)
       /\ IsUint32(j.longitude)
       /\ IsUint32(j.altitude)
    THEN Ok(j, 0)
    ELSE Fail(0)

\* ------------------------------------------------------------------------
\* Target (record.js 732-1012).  A target is [type, target]: the kind and
\* the text.
\* ------------------------------------------------------------------------

compressTarget(type, target, c) ==
    IF type = INAME THEN Add(c, SliceEnd(target, Len(ICANNP)))
    ELSE IF type = HNAME THEN Add(c, SliceEnd(target, Len(HSKP)))
    ELSE c

sizeTarget(type, target, c) ==
    IF type = INET4 THEN 4
    ELSE IF type = INET6 THEN ipSize(RawOf(target))
    ELSE IF type = ONION THEN 10
    ELSE IF type = ONIONNG THEN 33
    ELSE IF type = INAME THEN CSize(c, SliceEnd(target, Len(ICANNP)))
    ELSE IF type = HNAME THEN CSize(c, SliceEnd(target, Len(HSKP)))
    ELSE 0

writeTarget(type, target, c) ==
    IF type = INET4
    THEN IF Len(RawOf(target)) = 4 THEN W(RawOf(target)) ELSE WFail
    ELSE IF type = INET6
    THEN IF Len(RawOf(target)) = 16 THEN W(ipWrite(RawOf(target))) ELSE WFail
    ELSE IF type = ONION THEN W(RawOf(target))
    ELSE IF type = ONIONNG THEN W(RawOf(target))
    ELSE IF type = INAME THEN W(CWrite(c, SliceEnd(target, Len(ICANNP))))
    ELSE IF type = HNAME THEN W(CWrite(c, SliceEnd(target, Len(HSKP))))
    ELSE WFail

readTarget(type, d, b, p) ==
    IF type = INET4
    THEN Then(readBytes(b, p, 4), LAMBDA r, p1 : Ok(IPEncode(r), p1))
    ELSE IF type = INET6
    THEN Then(ipRead(b, p), LAMBDA r, p1 : Ok(IPEncode(r), p1))
    ELSE IF type = ONION
    THEN Then(readBytes(b, p, 10), LAMBDA r, p1 : Ok(OnionText(r), p1))
    ELSE IF type = ONIONNG
    THEN Then(readBytes(b, p, 33), LAMBDA r, p1 : Ok(OnionNGText(r), p1))
    ELSE IF type = INAME
    THEN Then(DRead(d, b, p), LAMBDA r, p1 : Ok(r \o ICANNP, p1))
    ELSE IF type = HNAME
    THEN Then(DRead(d, b, p), LAMBDA r, p1 : Ok(r \o HSKP, p1))
    ELSE Fail(p)

Target(type, target) == [type |-> type, target |-> target]

\* new Target(): INET4 0.0.0.0
NullTarget == Target(INET4, IP4Text(<<0, 0, 0, 0>>))

TargetCompress(t, c) == compressTarget(t.type, t.target, c)

TargetFromString(str) ==
    LET st == StringType(str)
    IN  IF st = "INET4" THEN Ok(Target(INET4, IPNormalize(str)), 0)
        ELSE IF st = "INET6" THEN Ok(Target(INET6, IPNormalize(str)), 0)
        ELSE IF st = "ONION" THEN Ok(Target(ONION, str), 0)
        ELSE IF ~IsName(str) THEN Fail(0)
        ELSE IF IsNGString(str) THEN Ok(Target(ONIONNG, str), 0)
        ELSE LET name == TrimFQDN(str)
             IN  IF EndsWith(name, HSKP) THEN Ok(Target(HNAME, name), 0)
                 ELSE IF EndsWith(name, ICANNP) THEN Ok(Target(INAME, name), 0)
                 ELSE Ok(Target(INAME, name \o ICANNP), 0)

TargetToJSON(t) == t.target

isINET4(t) == t.type = INET4

isINET6(t) == t.type = INET6

isHSK(t) == t.type = HNAME

isICANN(t) == t.type = INAME

isINET(t) == t.type <= INET6

isName(t) == t.type > ONIONNG

isTor(t) == t.type = ONION \/ t.type = ONIONNG

\* "_" + base58(ip) + "." + name
toPointer(t, name) ==
    IF isINET(t) THEN Ok(<<95>> \o Base58(RawOf(t.target)) \o <<46>> \o name, 0)
    ELSE Fail(0)

TargetToDNS(t) ==
    IF isHSK(t) THEN t.target \o <<46>>
    ELSE IF isICANN(t) THEN SliceEnd(t.target, Len(ICANNP)) \o <<46>>
    ELSE t.target

TargetGetSize(t, c) == 1 + sizeTarget(t.type, t.target, c)

TargetToWriter(t, c) == Cat(<<W(writeU8(t.type)), writeTarget(t.type, t.target, c)>>)

TargetFromReader(d, b, p) ==
    Then(readU8(b, p), LAMBDA type, p1 :
    Then(readTarget(type, d, b, p1), LAMBDA r, p2 : Ok(Target(type, r), p2)))

\* ------------------------------------------------------------------------
\* Service (record.js 522-627)
\* ------------------------------------------------------------------------

SMTP == <<115, 109, 116, 112>>

TCP == <<116, 99, 112>>

isSMTP(x) == x.service = SMTP /\ x.protocol = TCP

ServiceCompress(x, c) == Add(Add(c, x.service), x.protocol)

ServiceGetSize(x, c) ==
    CSize(c, x.service) + CSize(c, x.protocol) + 1 + 1 + TargetGetSize(x.target, c) + 2

ServiceToWriter(x, c) ==
    Cat(<<W(CWrite(c, x.service)), W(CWrite(c, x.protocol)), W(writeU8(x.priority)),
          W(writeU8(x.weight)), TargetToWriter(x.target, c), W(writeU16(x.port))>>)

ServiceFromReader(d, b, p) ==
    Then(DRead(d, b, p), LAMBDA sv, p1 :
    Then(DRead(d, b, p1), LAMBDA pr, p2 :
    Then(readU8(b, p2), LAMBDA priority, p3 :
    Then(readU8(b, p3), LAMBDA weight, p4 :
    Then(TargetFromReader(d, b, p4), LAMBDA t, p5 :
    Then(readU16(b, p5), LAMBDA port, p6 :
    Ok([service |-> sv, protocol |-> pr, priority |-> priority, weight |-> weight,
        target |-> t, port |-> port], p6)))))))

\* A JSON value that carries its typeof: the target of a service is written
\* as a string.
JString(str) == [typeof |-> "string", value |-> str]

ServiceToJSON(x) ==
    [service |-> x.service, protocol |-> x.protocol, priority |-> x.priority,
     weight |-> x.weight, target |-> JString(TargetToJSON(x.target)), port |-> x.port]

\* json.target == null leaves the default target; otherwise typeof
\* json.target must be 'object', and Target.fromString then asserts that it
\* was given a string.
ServiceTargetFromJSON(jt) ==
    IF jt.typeof = "null" THEN Ok(NullTarget, 0)
    ELSE IF jt.typeof # "object" THEN Fail(0)
    ELSE IF jt.typeof # "string" THEN Fail(0)
    ELSE TargetFromString(jt.value)

ServiceFromJSON(j) ==
    LET t == ServiceTargetFromJSON(j.target)
    IN  IF /\ j.priority \in 0..255
           /\ j.weight \in 0..255
           /\ j.port \in 0..65535
           /\ t.ok
        THEN Ok([service |-> j.service, protocol |-> j.protocol,
                 priority |-> j.priority, weight |-> j.weight,
                 target |-> t.v, port |-> j.port], 0)
        ELSE Fail(0)

\* ------------------------------------------------------------------------
\* HSKRecord (record.js 1014-1327): the binary codec
\* ------------------------------------------------------------------------

\* new HSKRecord().  canonical and delegate are <<>> when null and <<t>>
\* when set.
EmptyRecord ==
    [version |-> 0, ttl |-> 0, hosts |-> <<>>, canonical |-> <<>>, delegate |-> <<>>,
     ns |-> <<>>, service |-> <<>>, url |-> <<>>, email |-> <<>>, text |-> <<>>,
     location |-> <<>>, magnet |-> <<>>, ds |-> <<>>, tls |-> <<>>, ssh |-> <<>>,
     pgp |-> <<>>, addr |-> <<>>, extra |-> <<>>]

\* for (const x of xs) x.compress(c)
CompressEach(c, xs, Op(_, _)) ==
    LET f[i \in 0..Len(xs)] == IF i = 0 THEN c ELSE Op(xs[i], f[i - 1])
    IN  f[Len(xs)]

RecordCompress(r) ==
    LET c1 == CompressEach(NewCompressor, r.hosts, TargetCompress)
        c2 == CompressEach(c1, r.canonical, TargetCompress)
        c3 == CompressEach(c2, r.delegate, TargetCompress)
        c4 == CompressEach(c3, r.ns, TargetCompress)
        c5 == CompressEach(c4, r.service, ServiceCompress)
        c6 == AddAll(AddAll(AddAll(c5, r.url), r.email), r.text)
        c7 == CompressEach(c6, r.magnet, MagnetCompress)
        c8 == CompressEach(c7, r.tls, TLSCompress)
    IN  CompressEach(c8, r.addr, AddrCompress)

RECURSIVE Sum(_)
Sum(ns) == IF ns = <<>> THEN 0 ELSE Head(ns) + Sum(Tail(ns))

RecordGetSize(r, c) ==
    IF \E i \in DOMAIN r.addr : ~AddrGetSize(r.addr[i], c).ok THEN Fail(0)
    ELSE Ok(1 + 2 + CTableSize(c)
       + Sum([i \in DOMAIN r.hosts |-> TargetGetSize(r.hosts[i], c)])
       + Sum([i \in DOMAIN r.canonical |-> 1 + TargetGetSize(r.canonical[i], c)])
       + Sum([i \in DOMAIN r.delegate |-> 1 + TargetGetSize(r.delegate[i], c)])
       + Sum([i \in DOMAIN r.ns |-> 1 + TargetGetSize(r.ns[i], c)])
       + Sum([i \in DOMAIN r.service |-> 1 + ServiceGetSize(r.service[i], c)])
       + Sum([i \in DOMAIN r.url |-> 1 + CSize(c, r.url[i])])
       + Sum([i \in DOMAIN r.email |-> 1 + CSize(c, r.email[i])])
       + Sum([i \in DOMAIN r.text |-> 1 + CSize(c, r.text[i])])
       + Sum([i \in DOMAIN r.location |-> 1 + LocationGetSize])
       + Sum([i \in DOMAIN r.magnet |-> 1 + MagnetGetSize(r.magnet[i], c)])
       + Sum([i \in DOMAIN r.ds |-> 1 + DSGetSize(r.ds[i])])
       + Sum([i \in DOMAIN r.tls |-> 1 + TLSGetSize(r.tls[i], c)])
       + Sum([i \in DOMAIN r.ssh |-> 1 + SSHGetSize(r.ssh[i])])
       + Sum([i \in DOMAIN r.pgp |-> 1 + SSHGetSize(r.pgp[i])])
       + Sum([i \in DOMAIN r.addr |-> 1 + AddrGetSize(r.addr[i], c).v])
       + Sum([i \in DOMAIN r.extra |-> 1 + ExtraGetSize(r.extra[i])]), 0)

\* One tagged write per item of a list.
Tagged(xs, tag, Wr(_)) ==
    Cat([i \in DOMAIN xs |-> Cat(<<W(writeU8(tag)), Wr(xs[i])>>)])

\* The ttl is written in units of 64 seconds, in 16 bits.
WriteTTL(ttl) == writeU16(ttl \div 64)

RecordToWriter(r, c) ==
    Cat(<<W(writeU8(r.version)),
          W(WriteTTL(r.ttl)),
          W(CTableWrite(c)),
          Cat([i \in DOMAIN r.hosts |-> TargetToWriter(r.hosts[i], c)]),
          Tagged(r.canonical, CANONICAL, LAMBDA t : TargetToWriter(t, c)),
          Tagged(r.delegate, DELEGATE, LAMBDA t : TargetToWriter(t, c)),
          Tagged(r.ns, NS, LAMBDA t : TargetToWriter(t, c)),
          Tagged(r.service, SERVICE, LAMBDA x : ServiceToWriter(x, c)),
          Tagged(r.url, URL, LAMBDA x : W(CWrite(c, x))),
          Tagged(r.email, EMAIL, LAMBDA x : W(CWrite(c, x))),
          Tagged(r.text, TEXT, LAMBDA x : W(CWrite(c, x))),
          Tagged(r.location, LOCATION, LocationToWriter),
          Tagged(r.magnet, MAGNET, LAMBDA x : MagnetToWriter(x, c)),
          Tagged(r.ds, DS, DSToWriter),
          Tagged(r.tls, TLS, LAMBDA x : TLSToWriter(x, c)),
          Tagged(r.ssh, SSH, SSHToWriter),
          Tagged(r.pgp, PGP, SSHToWriter),
          Tagged(r.addr, ADDR, LAMBDA x : AddrToWriter(x, c)),
          Cat([i \in DOMAIN r.extra |->
                 Cat(<<W(writeU8(r.extra[i].type)), ExtraToWriter(r.extra[i])>>)])>>)

\* The strings the sizing and the writing of a target pass to the
\* compressor (c.size in sizeTarget, c.write in writeTarget).
TargetStrings(t) ==
    IF t.type = INAME THEN {SliceEnd(t.target, Len(ICANNP))}
    ELSE IF t.type = HNAME THEN {SliceEnd(t.target, Len(HSKP))}
    ELSE {}

\* The strings Service.getSize and Service.toWriter pass to the compressor.
ServiceStrings(x) == {x.service, x.protocol} \cup TargetStrings(x.target)

\* The strings HSKRecord.getSize and HSKRecord.toWriter pass to the
\* compressor, through the items they visit.
RecordStrings(r) ==
    UNION {TargetStrings(r.hosts[i]) : i \in DOMAIN r.hosts}
    \cup UNION {TargetStrings(r.canonical[i]) : i \in DOMAIN r.canonical}
    \cup UNION {TargetStrings(r.delegate[i]) : i \in DOMAIN r.delegate}
    \cup UNION {TargetStrings(r.ns[i]) : i \in DOMAIN r.ns}
    \cup UNION {ServiceStrings(r.service[i]) : i \in DOMAIN r.service}
    \cup Range(r.url) \cup Range(r.email) \cup Range(r.text)
    \cup {r.magnet[i].nid : i \in DOMAIN r.magnet}
    \cup {r.tls[i].protocol : i \in DOMAIN r.tls}
    \cup {r.addr[i].currency : i \in {j \in DOMAIN r.addr : r.addr[j].currency # HSKCurrency}}

\* The positions of a written buffer that no write reached.
Unwritten(b) == {i \in DOMAIN b : b[i] < 0}

\* The positions of the buffer of toRaw that the writer of r leaves
\* unwritten.
RecordUnwritten(r) == Unwritten(RecordToWriter(r, RecordCompress(r)).v)

\* toRaw: compress, size, write into a buffer of that size, which is
\* allocated without being cleared; the writer throws when the offset it
\* ends at is not the size.  mem is what the allocated memory held at the
\* positions no write reached.
RecordToRaw(r, mem) ==
    LET c == RecordCompress(r)
        w == RecordToWriter(r, c)
    IN  IF RecordGetSize(r, c).ok /\ w.ok /\ Len(w.v) = RecordGetSize(r, c).v
        THEN W([i \in DOMAIN w.v |-> IF w.v[i] < 0 THEN mem[i] ELSE w.v[i]])
        ELSE WFail

\* The cases of the reader loop.  rec is the record read so far, p the
\* offset after the tag byte.
Push(rec, field, r) ==
    IF r.ok THEN Ok([rec EXCEPT ![field] = Append(@, r.v)], r.p) ELSE Fail(r.p)

\* assert(!this[field]) at offset p, then this[field] = the target read
\* Variant that keeps the last occurrence instead of asserting.
SetOnceOverwrite(rec, field, p, r) ==
    IF r.ok THEN Ok([rec EXCEPT ![field] = <<r.v>>], r.p)
    ELSE Fail(r.p)

SetOnce(rec, field, p, r) ==
    IF rec[field] # <<>> THEN Fail(p)
    ELSE IF r.ok THEN Ok([rec EXCEPT ![field] = <<r.v>>], r.p)
    ELSE Fail(r.p)

AsTarget(type, r) == Then(r, LAMBDA v, p : Ok(Target(type, v), p))

ReadItem(rec, type, d, b, p) ==
    IF type \in {INET4, INET6, ONION, ONIONNG}
    THEN Push(rec, "hosts", AsTarget(type, readTarget(type, d, b, p)))
    ELSE IF type \in {INAME, HNAME}
    THEN SetOnce(rec, "canonical", p, AsTarget(type, readTarget(type, d, b, p)))
    ELSE IF type = CANONICAL
    THEN SetOnce(rec, "canonical", p, TargetFromReader(d, b, p))
    ELSE IF type = DELEGATE
    THEN SetOnce(rec, "delegate", p, TargetFromReader(d, b, p))
    ELSE IF type = NS THEN Push(rec, "ns", TargetFromReader(d, b, p))
    ELSE IF type = SERVICE THEN Push(rec, "service", ServiceFromReader(d, b, p))
    ELSE IF type = URL THEN Push(rec, "url", DRead(d, b, p))
    ELSE IF type = EMAIL THEN Push(rec, "email", DRead(d, b, p))
    ELSE IF type = TEXT THEN Push(rec, "text", DRead(d, b, p))
    ELSE IF type = LOCATION THEN Push(rec, "location", LocationFromReader(b, p))
    ELSE IF type = MAGNET THEN Push(rec, "magnet", MagnetFromReader(d, b, p))
    ELSE IF type = DS THEN Push(rec, "ds", DSFromReader(b, p))
    ELSE IF type = TLS THEN Push(rec, "tls", TLSFromReader(d, b, p))
    ELSE IF type = SSH THEN Push(rec, "ssh", SSHFromReader(b, p))
    ELSE IF type = PGP THEN Push(rec, "pgp", SSHFromReader(b, p))
    ELSE IF type = ADDR THEN Push(rec, "addr", AddrFromReader(d, b, p))
    ELSE Push(rec, "extra", ExtraFromReader(b, p))

\* while (br.left()) { const type = br.readU8(); switch (type) ... }
\* The result is [rec, tags]: the record and the tag bytes the loop has
\* dispatched on, in order; a throw carries the tags read up to it.
RECURSIVE ReadItems(_, _, _, _, _)
ReadItems(rec, tags, d, b, p) ==
    IF Left(b, p) <= 0 THEN Ok([rec |-> rec, tags |-> tags], p)
    ELSE LET r == ReadItem(rec, b[p], d, b, p + 1)
         IN  IF r.ok THEN ReadItems(r.v, Append(tags, b[p]), d, b, r.p)
             ELSE [ok |-> FALSE, v |-> [rec |-> rec, tags |-> Append(tags, b[p])],
                   p |-> r.p]

\* Variant that also accepts version 1.
VersionOkLoose(version) == version <= 1

\* The version check: a version other than 0 throws.
VersionOk(version) == version = 0

\* this.ttl = br.readU16() << 6
ReadTTL(b, p) == Then(readU16(b, p), LAMBDA v, p1 : Ok(v * 64, p1))

\* record.fromReader(br) reads into rec, the record it is called on: the ttl
\* is overwritten once it is read and the items are added to what rec holds.
\* A throw carries the record as the reader left it.
RecordFromReader(rec, b) ==
    LET version == readU8(b, 1)
        Throw(r, p) == [ok |-> FALSE, v |-> [rec |-> r, tags |-> <<>>], p |-> p]
    IN  IF ~version.ok THEN Throw(rec, version.p)
        ELSE IF ~VersionOk(version.v) THEN Throw(rec, version.p)
        ELSE LET ttl == ReadTTL(b, version.p)
             IN  IF ~ttl.ok THEN Throw(rec, ttl.p)
                 ELSE LET d == DTableRead(b, ttl.p)
                      IN  IF ~d.ok THEN Throw([rec EXCEPT !.ttl = ttl.v], d.p)
                          ELSE ReadItems([rec EXCEPT !.ttl = ttl.v], <<>>, d.v, b, d.p)

\* ------------------------------------------------------------------------
\* HSKRecord JSON (record.js 1962-2185).  A key that toJSON omits holds <<>>.
\* ------------------------------------------------------------------------

RecordToJSON(r, name) ==
    [version |-> r.version,
     name |-> name,
     ttl |-> r.ttl,
     hosts |-> [i \in DOMAIN r.hosts |-> TargetToJSON(r.hosts[i])],
     canonical |-> [i \in DOMAIN r.canonical |-> TargetToJSON(r.canonical[i])],
     delegate |-> [i \in DOMAIN r.delegate |-> TargetToJSON(r.delegate[i])],
     ns |-> [i \in DOMAIN r.ns |-> TargetToJSON(r.ns[i])],
     service |-> [i \in DOMAIN r.service |-> ServiceToJSON(r.service[i])],
     url |-> r.url,
     email |-> r.email,
     text |-> r.text,
     location |-> [i \in DOMAIN r.location |-> LocationToJSON(r.location[i])],
     magnet |-> [i \in DOMAIN r.magnet |-> MagnetToString(r.magnet[i])],
     ds |-> [i \in DOMAIN r.ds |-> DSToJSON(r.ds[i])],
     tls |-> [i \in DOMAIN r.tls |-> TLSToJSON(r.tls[i])],
     ssh |-> [i \in DOMAIN r.ssh |-> SSHToJSON(r.ssh[i])],
     pgp |-> [i \in DOMAIN r.pgp |-> SSHToJSON(r.pgp[i])],
     addr |-> [i \in DOMAIN r.addr |-> AddrToString(r.addr[i])],
     extra |-> [i \in DOMAIN r.extra |-> ExtraToJSON(r.extra[i])]]

StringFromJSON(str) == IF Len(str) <= 255 THEN Ok(str, 0) ELSE Fail(0)

\* assert((json.ttl >>> 0) === json.ttl)
TTLFromJSON(ttl) == IsUint32(ttl)

\* The keys of a JSON object that hold items, in the order fromJSON reads
\* them.
JSONKeys ==
    <<"hosts", "canonical", "delegate", "ns", "service", "url", "email", "text",
      "location", "magnet", "ds", "tls", "ssh", "pgp", "addr", "extra">>

\* The fromJSON that reads an item of the given key.
ItemFromJSON(key, x) ==
    IF key \in {"hosts", "canonical", "delegate", "ns"} THEN TargetFromString(x)
    ELSE IF key = "service" THEN ServiceFromJSON(x)
    ELSE IF key \in {"url", "email", "text"} THEN StringFromJSON(x)
    ELSE IF key = "location" THEN LocationFromJSON(x)
    ELSE IF key = "magnet" THEN MagnetFromString(x)
    ELSE IF key = "ds" THEN DSFromJSON(x)
    ELSE IF key = "tls" THEN TLSFromJSON(x)
    ELSE IF key \in {"ssh", "pgp"} THEN SSHFromJSON(x)
    ELSE IF key = "addr" THEN AddrFromString(x)
    ELSE ExtraFromJSON(x)

\* A throw of fromJSON: v is the record as the throw left it.
ThrowJSON(rec) == [ok |-> FALSE, v |-> rec, p |-> 0]

\* for (const x of json[key]) this[key].push(X.fromJSON(x)): the items
\* before one that throws stay pushed.
RECURSIVE PushJSON(_, _, _)
PushJSON(rec, key, xs) ==
    IF xs = <<>> THEN Ok(rec, 0)
    ELSE IF ~ItemFromJSON(key, Head(xs)).ok THEN ThrowJSON(rec)
    ELSE PushJSON([rec EXCEPT ![key] = Append(@, ItemFromJSON(key, Head(xs)).v)],
                  key, Tail(xs))

\* this[key] = Target.fromJSON(json[key]) for canonical and delegate: what
\* the record held is replaced.
SetJSON(rec, key, xs) ==
    IF xs = <<>> THEN Ok(rec, 0)
    ELSE IF ~ItemFromJSON(key, xs[1]).ok THEN ThrowJSON(rec)
    ELSE Ok([rec EXCEPT ![key] = <<ItemFromJSON(key, xs[1]).v>>], 0)

\* The keys from the k-th on, read into rec in turn.
RECURSIVE ReadKeys(_, _, _)
ReadKeysAfter(r, j, k) == IF r.ok THEN ReadKeys(r.v, j, k + 1) ELSE r

ReadKeys(rec, j, k) ==
    IF k > Len(JSONKeys) THEN Ok(rec, 0)
    ELSE ReadKeysAfter(IF JSONKeys[k] \in {"canonical", "delegate"}
                       THEN SetJSON(rec, JSONKeys[k], j[JSONKeys[k]])
                       ELSE PushJSON(rec, JSONKeys[k], j[JSONKeys[k]]),
                       j, k)

\* record.fromJSON(json) reads into rec, the record it is called on: version
\* and ttl are overwritten, canonical and delegate replaced, and the items
\* added to the lists rec holds.  A throw carries the record as it was left.
RecordFromJSON(rec, j) ==
    IF j.version # 0 THEN ThrowJSON(rec)
    ELSE IF ~TTLFromJSON(j.ttl) THEN ThrowJSON([rec EXCEPT !.version = j.version])
    ELSE ReadKeys([rec EXCEPT !.version = j.version, !.ttl = j.ttl], j, 1)

\* ------------------------------------------------------------------------
\* The DNS synthesizer (record.js 1329-1960).  A resource record is
\* [name, type, ttl, data]; record types are named by their mnemonics.
\* Names are fully-qualified names without escapes.
\* ------------------------------------------------------------------------

RR(name, type, ttl, data) == [name |-> name, type |-> type, ttl |-> ttl, data |-> data]

\* util.isFQDN
isFQDN(name) == name # <<>> /\ name[Len(name)] = 46

\* util.split(name).length: the root name "." has no label.
LabelCount(name) ==
    IF name = <<46>> THEN 0
    ELSE Cardinality({i \in DOMAIN name : name[i] = 46})

\* util.from(name, labels, -1): the last label with its dot.
LastLabel(name) ==
    LET dots == {i \in 1..(Len(name) - 1) : name[i] = 46}
        start == IF dots = {} THEN 1 ELSE 1 + CHOOSE i \in dots : \A j \in dots : j <= i
    IN  SubSeq(name, start, Len(name))

RECURSIVE DecimalText(_)
DecimalText(n) ==
    IF n < 10 THEN <<48 + n>> ELSE Append(DecimalText(n \div 10), 48 + (n % 10))

Select(xs, Keep(_)) == SelectSeq(xs, Keep)

hasTor(r) == \E i \in DOMAIN r.hosts : isTor(r.hosts[i])

\* "hsk:"
HskColon == <<104, 115, 107, 58>>

TXTRecord(name, ttl, txt) == RR(name, "TXT", ttl, [txt |-> txt])

\* Variant that lists only the first onion host.
toTorTXTFirst(r, name) ==
    LET tor == Select(r.hosts, isTor)
    IN  TXTRecord(name, r.ttl, <<HskColon \o <<116, 111, 114>>, tor[1].target>>)

toTorTXT(r, name) ==
    LET tor == Select(r.hosts, isTor)
    IN  TXTRecord(name, r.ttl,
                  <<HskColon \o <<116, 111, 114>>>> \o [i \in DOMAIN tor |-> tor[i].target])

AddressRecords(r, name, type, Is(_)) ==
    LET hs == Select(r.hosts, Is)
    IN  [i \in DOMAIN hs |-> RR(name, type, r.ttl, [address |-> hs[i].target])]

\* Variant that filters hosts with isINET instead of isINET4.
toAAnyINET(r, name) ==
    AddressRecords(r, name, "A", isINET)
    \o (IF hasTor(r) THEN <<toTorTXT(r, name)>> ELSE <<>>)

toA(r, name) ==
    AddressRecords(r, name, "A", isINET4)
    \o (IF hasTor(r) THEN <<toTorTXT(r, name)>> ELSE <<>>)

toAAAA(r, name) ==
    AddressRecords(r, name, "AAAA", isINET6)
    \o (IF hasTor(r) THEN <<toTorTXT(r, name)>> ELSE <<>>)

\* toCNAME and toDNAME assert that the target is a name.
toCNAME(r, name) ==
    IF r.canonical = <<>> THEN Ok(<<>>, 0)
    ELSE IF ~isName(r.canonical[1]) THEN Fail(0)
    ELSE Ok(<<RR(name, "CNAME", r.ttl, [target |-> TargetToDNS(r.canonical[1])])>>, 0)

toDNAME(r, name) ==
    IF r.delegate = <<>> THEN Ok(<<>>, 0)
    ELSE IF ~isName(r.delegate[1]) THEN Fail(0)
    ELSE Ok(<<RR(name, "DNAME", r.ttl, [target |-> TargetToDNS(r.delegate[1])])>>, 0)

\* The name a target is rendered as where a name is expected, <<>> if none.
TargetName(t, name, naked) ==
    IF isName(t) THEN TargetToDNS(t)
    ELSE IF naked /\ isINET(t) THEN toPointer(t, name).v
    ELSE <<>>

toNS(r, name, naked) ==
    LET ns == Select(r.ns, LAMBDA t : TargetName(t, name, naked) # <<>>)
    IN  [i \in DOMAIN ns |->
            RR(name, "NS", r.ttl, [ns |-> TargetName(ns[i], name, naked)])]

\* One A or AAAA record under the pointer name of an inline address.
Glue(t, name, ttl) ==
    RR(toPointer(t, name).v, IF isINET4(t) THEN "A" ELSE "AAAA", ttl,
       [address |-> t.target])

toNSIP(r, name, naked) ==
    IF ~naked THEN <<>>
    ELSE LET ns == Select(r.ns, isINET)
         IN  [i \in DOMAIN ns |-> Glue(ns[i], name, r.ttl)]

toMX(r, name, naked) ==
    LET sv == Select(r.service,
                     LAMBDA x : isSMTP(x) /\ TargetName(x.target, name, naked) # <<>>)
    IN  [i \in DOMAIN sv |->
            RR(name, "MX", r.ttl,
               [preference |-> sv[i].priority,
                mx |-> TargetName(sv[i].target, name, naked)])]

toSRV(r, name, naked) ==
    LET sv == Select(r.service, LAMBDA x : TargetName(x.target, name, naked) # <<>>)
    IN  [i \in DOMAIN sv |->
            RR(<<95>> \o sv[i].service \o <<46, 95>> \o sv[i].protocol \o <<46>> \o name,
               "SRV", r.ttl,
               [priority |-> sv[i].priority, weight |-> sv[i].weight,
                target |-> TargetName(sv[i].target, name, naked),
                port |-> sv[i].port])]

toSRVIP(r, name, naked, mx) ==
    IF ~naked THEN <<>>
    ELSE LET sv == Select(r.service,
                          LAMBDA x : (mx => isSMTP(x)) /\ isINET(x.target))
         IN  [i \in DOMAIN sv |-> Glue(sv[i].target, name, r.ttl)]

\* Variant that does not restrict the glue to SMTP services.
toMXIPAll(r, name, naked) == toSRVIP(r, name, naked, FALSE)

toMXIP(r, name, naked) == toSRVIP(r, name, naked, TRUE)

\* toSOA calls toNS and toMX without the naked argument.
toSOA(r, name) ==
    IF ~isFQDN(name) THEN Fail(0)
    ELSE LET tld == LastLabel(name)
             ns == toNS(r, tld, FALSE)
             mx == toMX(r, tld, FALSE)
         IN  Ok(<<RR(tld, "SOA", r.ttl,
                     [ns |-> IF Len(ns) > 0 THEN ns[1].data.ns ELSE tld,
                      mbox |-> IF Len(mx) > 0 THEN mx[1].data.mx ELSE tld,
                      serial |-> 0, refresh |-> 1800, retry |-> r.ttl,
                      expire |-> 604800, minttl |-> 86400])>>, 0)

toLOC(r, name) ==
    [i \in DOMAIN r.location |-> RR(name, "LOC", r.ttl, r.location[i])]

toDS(r, name) ==
    [i \in DOMAIN r.ds |-> RR(name, "DS", r.ttl, r.ds[i])]

toTLSA(r, name) ==
    [i \in DOMAIN r.tls |->
        RR(<<95>> \o DecimalText(r.tls[i].port) \o <<46, 95>> \o r.tls[i].protocol
             \o <<46>> \o name,
           "TLSA", r.ttl,
           [usage |-> r.tls[i].usage, selector |-> r.tls[i].selector,
            matchingType |-> r.tls[i].matchingType,
            certificate |-> r.tls[i].certificate])]

toOPENPGPKEY(r, name) ==
    [i \in DOMAIN r.pgp |->
        RR(name, "OPENPGPKEY", r.ttl, [publicKey |-> SSHToWriter(r.pgp[i]).v])]

toTextTXT(r, name) == TXTRecord(name, r.ttl, r.text)

toURLTXT(r, name) == TXTRecord(name, r.ttl, <<HskColon \o <<117, 114, 108>>>> \o r.url)

toEmailTXT(r, name) ==
    TXTRecord(name, r.ttl, <<HskColon \o <<101, 109, 97, 105, 108>>>> \o r.email)

toMagnetTXT(r, name) ==
    TXTRecord(name, r.ttl,
              <<HskColon \o <<109, 97, 103, 110, 101, 116>>>>
              \o [i \in DOMAIN r.magnet |-> MagnetToString(r.magnet[i])])

toAddrTXT(r, name) ==
    TXTRecord(name, r.ttl,
              <<HskColon \o <<97, 100, 100, 114>>>>
              \o [i \in DOMAIN r.addr |-> AddrToString(r.addr[i])])

\* Variant that emits the url record before the text record.
toTXTUrlFirst(r, name) ==
    (IF Len(r.url) > 0 THEN <<toURLTXT(r, name)>> ELSE <<>>)
    \o (IF Len(r.text) > 0 THEN <<toTextTXT(r, name)>> ELSE <<>>)
    \o (IF Len(r.email) > 0 THEN <<toEmailTXT(r, name)>> ELSE <<>>)
    \o (IF Len(r.magnet) > 0 THEN <<toMagnetTXT(r, name)>> ELSE <<>>)
    \o (IF Len(r.addr) > 0 THEN <<toAddrTXT(r, name)>> ELSE <<>>)

toTXT(r, name) ==
    (IF Len(r.text) > 0 THEN <<toTextTXT(r, name)>> ELSE <<>>)
    \o (IF Len(r.url) > 0 THEN <<toURLTXT(r, name)>> ELSE <<>>)
    \o (IF Len(r.email) > 0 THEN <<toEmailTXT(r, name)>> ELSE <<>>)
    \o (IF Len(r.magnet) > 0 THEN <<toMagnetTXT(r, name)>> ELSE <<>>)
    \o (IF Len(r.addr) > 0 THEN <<toAddrTXT(r, name)>> ELSE <<>>)

\* new Message()
NewMessage ==
    [qr |-> FALSE, aa |-> FALSE, ad |-> FALSE,
     answer |-> <<>>, authority |-> <<>>, additional |-> <<>>,
     edns |-> [enabled |-> FALSE, size |-> 512, dok |-> FALSE]]

setEDNS0(res, size, dok) ==
    [res EXCEPT !.edns = [enabled |-> TRUE, size |-> size, dok |-> dok]]

\* The referral for a name of more than one label.
Referral(r, res, name, naked) ==
    LET tld == LastLabel(name)
        dname == toDNAME(r, tld)
        soa == toSOA(r, tld)
        res1 == IF Len(r.ns) > 0
                THEN Ok([res EXCEPT !.authority = toNS(r, tld, naked),
                                    !.additional = toNSIP(r, tld, naked)], 0)
                ELSE IF r.delegate # <<>>
                THEN IF dname.ok THEN Ok([res EXCEPT !.answer = dname.v], 0) ELSE Fail(0)
                ELSE IF soa.ok THEN Ok([res EXCEPT !.authority = soa.v], 0) ELSE Fail(0)
    IN  IF ~res1.ok THEN Fail(0)
        ELSE Ok(setEDNS0([res1.v EXCEPT !.authority = @ \o toDS(r, tld)], 4096, TRUE), 0)

\* switch (type): the sections of the authoritative response.
Dispatch(r, res, name, type, naked) ==
    LET soa == toSOA(r, name)
        cname == toCNAME(r, name)
        dname == toDNAME(r, name)
    IN  IF type = "ANY"
        THEN IF ~soa.ok THEN Fail(0)
             ELSE Ok([res EXCEPT !.answer = soa.v \o toNS(r, name, naked),
                                 !.additional = toNSIP(r, name, naked)], 0)
        ELSE IF type = "A" THEN Ok([res EXCEPT !.answer = toA(r, name)], 0)
        ELSE IF type = "AAAA" THEN Ok([res EXCEPT !.answer = toAAAA(r, name)], 0)
        ELSE IF type = "CNAME"
        THEN IF cname.ok THEN Ok([res EXCEPT !.answer = cname.v], 0) ELSE Fail(0)
        ELSE IF type = "DNAME"
        THEN IF dname.ok THEN Ok([res EXCEPT !.answer = dname.v], 0) ELSE Fail(0)
        ELSE IF type = "NS"
        THEN Ok([res EXCEPT !.answer = toNS(r, name, naked),
                            !.additional = toNSIP(r, name, naked)], 0)
        ELSE IF type = "MX"
        THEN Ok([res EXCEPT !.answer = toMX(r, name, naked),
                            !.additional = toMXIP(r, name, naked)], 0)
        ELSE IF type = "SRV"
        THEN Ok([res EXCEPT !.answer = toSRV(r, name, naked),
                            !.additional = toSRVIP(r, name, naked, FALSE)], 0)
        ELSE IF type = "TXT" THEN Ok([res EXCEPT !.answer = toTXT(r, name)], 0)
        ELSE IF type = "LOC" THEN Ok([res EXCEPT !.answer = toLOC(r, name)], 0)
        ELSE IF type = "DS" THEN Ok([res EXCEPT !.answer = toDS(r, name)], 0)
        ELSE IF type = "TLSA" THEN Ok([res EXCEPT !.answer = toTLSA(r, name)], 0)
        ELSE IF type = "OPENPGPKEY"
        THEN Ok([res EXCEPT !.answer = toOPENPGPKEY(r, name)], 0)
        ELSE Ok(res, 0)

\* The fallbacks after the switch: a CNAME if canonical is set, else the SOA.
Fallback(r, res, name) ==
    LET cname == toCNAME(r, name)
        soa == toSOA(r, name)
        empty == Len(res.answer) = 0 /\ Len(res.authority) = 0
    IN  IF empty /\ r.canonical # <<>>
        THEN IF cname.ok THEN Ok(setEDNS0([res EXCEPT !.answer = cname.v], 4096, TRUE), 0)
             ELSE Fail(0)
        ELSE IF empty
        THEN IF soa.ok THEN Ok(setEDNS0([res EXCEPT !.answer = soa.v], 4096, TRUE), 0)
             ELSE Fail(0)
        ELSE Ok(setEDNS0(res, 4096, TRUE), 0)

\* Variant that honours the argument.
NakedAsGiven(naked) == naked

\* The naked argument is overridden.
Naked(naked) == TRUE

\* res.aa = true on the authoritative path.
Authoritative(res) == [res EXCEPT !.aa = TRUE]

toDNS(r, name, type, naked) ==
    LET res == [NewMessage EXCEPT !.qr = TRUE, !.ad = TRUE]
    IN  IF ~isFQDN(name) THEN Fail(0)
        ELSE IF LabelCount(name) > 1 THEN Referral(r, res, name, Naked(naked))
        ELSE LET d == Dispatch(r, Authoritative(res), name, type, Naked(naked))
             IN  IF ~d.ok THEN Fail(0) ELSE Fallback(r, d.v, name)

\* ------------------------------------------------------------------------
\* The inputs: records, blobs and JSON objects drawn from bounded sets
\* ------------------------------------------------------------------------

MaxItems == 2

MaxRawItems == 3

MaxOps == 3

RECURSIVE SeqsUpTo(_, _)
SeqsUpTo(S, n) ==
    IF n = 0 THEN {<<>>}
    ELSE LET shorter == SeqsUpTo(S, n - 1)
         IN  shorter \cup {Append(q, x) : q \in shorter, x \in S}

Repeat(x, n) == [i \in 1..n |-> x]

IP4 == IP4Text(<<1, 2, 3, 4>>)

IP6 == IP6Text(Repeat(0, 15) \o <<1>>)

Onion == OnionText(Repeat(7, 10))

OnionNG == OnionNGText(Repeat(9, 33))

\* "c.i" and "b.h"
NameI == <<99>> \o ICANNP

NameH == <<98>> \o HSKP

Svc(service, protocol, priority, target, port) ==
    [service |-> service, protocol |-> protocol, priority |-> priority,
     weight |-> 0, target |-> target, port |-> port]

\* The items a record is built from: [field, value].
Item(field, value) == [field |-> field, value |-> value]

Items ==
    <<Item("hosts", Target(INET4, IP4)), Item("hosts", Target(INET6, IP6)),
     Item("hosts", Target(ONION, Onion)), Item("hosts", Target(ONIONNG, OnionNG)),
     Item("canonical", Target(INAME, NameI)), Item("canonical", Target(HNAME, NameH)),
     Item("delegate", Target(INAME, NameI)),
     Item("ns", Target(HNAME, NameH)), Item("ns", Target(INET4, IP4)),
     Item("ns", Target(ONION, Onion)),
     Item("service", Svc(SMTP, TCP, 10, Target(INET4, IP4), 25)),
     Item("service", Svc(SMTP, TCP, 20, Target(INAME, NameI), 25)),
     Item("service", Svc(<<119>>, TCP, 5, Target(INET6, IP6), 80)),
     Item("url", <<117>>),
     Item("email", <<101>>),
     Item("text", <<116>>),
     Item("location", [version |-> 0, size |-> 18, horizPre |-> 22, vertPre |-> 19,
                       latitude |-> 70000, longitude |-> 5, altitude |-> 0]),
     Item("magnet", [nid |-> <<98, 116>>, nin |-> <<97, 98, 99, 100>>]),
     Item("ds", [keyTag |-> 1, algorithm |-> 8, digestType |-> 2, digest |-> <<5>>]),
     Item("ds", [keyTag |-> 257, algorithm |-> 8, digestType |-> 2, digest |-> <<>>]),
     Item("tls", [protocol |-> TCP, port |-> 443, usage |-> 3, selector |-> 1,
                  matchingType |-> 1, certificate |-> <<171>>]),
     Item("ssh", [algorithm |-> 1, type |-> 2, fingerprint |-> <<30, 48>>]),
     Item("ssh", [algorithm |-> 1, type |-> 2, fingerprint |-> <<18, 52>>]),
     Item("pgp", [algorithm |-> 0, type |-> 0, fingerprint |-> <<171>>]),
     Item("addr", [currency |-> HSKCurrency,
                   address |-> AddressText(0, <<1, 2>>, FALSE)]),
     Item("addr", [currency |-> <<98>>, address |-> <<49, 97>>]),
     Item("extra", [type |-> 200, data |-> <<1>>])>>

\* The record with the items of the given indices pushed in order
\* (canonical and delegate: set).
RECURSIVE RecordOf(_)
RecordOf(q) ==
    IF q = <<>> THEN EmptyRecord
    ELSE LET rec == RecordOf(SubSeq(q, 1, Len(q) - 1))
             it == Items[q[Len(q)]]
         IN  IF it.field \in {"canonical", "delegate"}
             THEN [rec EXCEPT ![it.field] = <<it.value>>]
             ELSE [rec EXCEPT ![it.field] = Append(@, it.value)]

\* 0, 3584 = 3600 & ~63, a ttl that is no multiple of 64, and two that do
\* not fit 16 bits of 64-second units.
TTLs == {0, 3584, 100, 4194304 + 197, 2147483647}

\* A magnet whose nin is two code units above 255 with the low bytes "01",
\* and an address with a code unit above 255 whose low byte is "a".
OddItems ==
    {Item("magnet", [nid |-> <<98, 116>>, nin |-> <<304, 305>>]),
     Item("addr", [currency |-> <<98>>, address |-> <<49, 353>>])}

\* Magnets whose nin Magnet.fromString accepts (it checks the length only)
\* and that is no hex text: "zz" and "abzz".
UnwrittenItems ==
    {Item("magnet", [nid |-> <<98, 116>>, nin |-> <<122, 122>>]),
     Item("magnet", [nid |-> <<98, 116>>, nin |-> <<97, 98, 122, 122>>])}

\* A record with an IPv6 host, a magnet whose nin is no hex text, an
\* address with a code unit above 255 and an unknown item.
OddRecord ==
    [EmptyRecord EXCEPT !.hosts = <<Target(INET6, IP6)>>,
                        !.magnet = <<[nid |-> <<98, 116>>, nin |-> <<122, 122>>]>>,
                        !.addr = <<[currency |-> <<98>>, address |-> <<49, 353>>]>>,
                        !.extra = <<[type |-> 200, data |-> <<1>>]>>]

\* Every combination of items with ttl 0, every ttl with at most one item,
\* and each odd item alone.
Records ==
    {RecordOf(q) : q \in SeqsUpTo(DOMAIN Items, MaxItems)}
    \cup {[RecordOf(q) EXCEPT !.ttl = t] : q \in SeqsUpTo(DOMAIN Items, 1), t \in TTLs}
    \cup {[EmptyRecord EXCEPT ![it.field] = <<it.value>>] : it \in OddItems}

\* The records whose writer leaves a position of the buffer unwritten.
UnwrittenRecords ==
    {[EmptyRecord EXCEPT ![it.field] = <<it.value>>] : it \in UnwrittenItems}
    \cup {OddRecord}

\* A valid record: version 0, ttl a multiple of 64 below 2^22, hosts of an
\* address kind, canonical and delegate of a name kind.
ValidRecord(r) ==
    /\ r.version = 0
    /\ r.ttl % 64 = 0 /\ r.ttl < 4194304
    /\ \A i \in DOMAIN r.hosts : r.hosts[i].type \in {INET4, INET6, ONION, ONIONNG}
    /\ \A i \in DOMAIN r.canonical : r.canonical[i].type \in {INAME, HNAME}
    /\ \A i \in DOMAIN r.delegate : r.delegate[i].type \in {INAME, HNAME}

\* Blobs: a header (version, ttl, string table) and top-level items.
\* Version 0 and ttl 0, with an empty table and with a table holding "c"
\* that a first TEXT item refers to; a ttl of 56 units; versions 1 and 255.
PlainHeaders == {<<0, 0, 0, 0>>, <<0, 0, 0, 1, 1, 99, TEXT, 1, 128>>}

RawHeaders == PlainHeaders \cup {<<0, 56, 0, 0>>, <<1, 0, 0, 0>>, <<255, 0, 0, 0>>}

\* Items that set hosts, canonical and delegate, and an SSH item: these are
\* combined with one another.
RawItems ==
    {<<INET4, 1, 2, 3, 4>>,
     <<INAME, 1, 128>>,
     <<HNAME, 1, 98>>,
     <<CANONICAL, INAME, 1, 128>>,
     <<CANONICAL, INET4, 1, 2, 3, 4>>,
     <<DELEGATE, HNAME, 1, 98>>,
     <<DELEGATE, INET4, 1, 2, 3, 4>>,
     <<SSH, 1, 2, 0>>}

\* A TEXT item and items of an unknown type: these are read alone.
LoneRawItems ==
    {<<TEXT, 1, 128>>,
     <<200, 200, 1, 1>>,
     <<200, 1, 0>>,
     <<4, 1, 7>>}

Raws ==
    {h \o Flatten(q) : h \in PlainHeaders, q \in SeqsUpTo(RawItems, MaxRawItems)}
    \cup {h \o Flatten(q) : h \in RawHeaders, q \in SeqsUpTo(RawItems \cup LoneRawItems, 1)}

\* Data of an extra item that is no hex text: "0x10", "1e+1" and two code
\* units above 255 (no number: their low bytes are "01") pass the test on
\* data >>> 1, "0x1000" and "-1" do not.
ExtraTexts ==
    {<<48, 120, 49, 48>>, <<49, 101, 43, 49>>, <<48, 120, 49, 48, 48, 48>>, <<45, 49>>,
     <<304, 305>>}

\* JSON objects as a caller may write them.
EmptyJSON == RecordToJSON(EmptyRecord, <<120, 46>>)

JSONs ==
    {[EmptyJSON EXCEPT !.ttl = t] : t \in TTLs}
    \cup {[EmptyJSON EXCEPT !.canonical = <<c>>] : c \in {IP4, NameI, Onion}}
    \cup {[EmptyJSON EXCEPT !.delegate = <<c>>] : c \in {IP6, NameH}}
    \cup {[EmptyJSON EXCEPT !.hosts = <<c>>] : c \in {IP4, NameI}}
    \cup {[EmptyJSON EXCEPT !.hosts = <<NameI>>, !.canonical = <<NameI>>]}
    \cup {[EmptyJSON EXCEPT !.extra = <<[type |-> 200, data |-> d]>>] : d \in ExtraTexts}

\* The fully-qualified names queried: ".", "x." and "y.x.".
Names == {<<46>>, <<120, 46>>, <<121, 46, 120, 46>>}

QTypes ==
    {"ANY", "A", "AAAA", "CNAME", "DNAME", "NS", "MX", "SRV", "TXT", "LOC", "DS",
     "TLSA", "OPENPGPKEY", "SSHFP"}

\* ------------------------------------------------------------------------
\* The state machine: an input, and the operations applied to it in turn.
\*   input    [kind, val]: the record, blob or JSON object the run starts from
\*   ops      the operations applied so far
\*   cur      what the last operation returned: "record", "raw", "json",
\*            "message", or "error" when it threw
\*   record   the record the session holds: the input, the record the last
\*            static decode returned, or the one an instance decode read into
\*   raw, json, message   the latest value of each kind
\*   query    the arguments of the last toDNS
\*   pos      the reader offset when the last read of a blob returned or threw
\*   tags     the top-level tags the last read of a blob dispatched on
\* ------------------------------------------------------------------------

VARIABLES input, ops, cur, record, raw, json, message, query, pos, tags

vars == <<input, ops, cur, record, raw, json, message, query, pos, tags>>

NoQuery == [name |-> <<>>, type |-> "", naked |-> FALSE]

Start(kind, val) ==
    /\ input = [kind |-> kind, val |-> val]
    /\ ops = <<>>
    /\ cur = kind
    /\ record = IF kind = "record" THEN val ELSE EmptyRecord
    /\ raw = IF kind = "raw" THEN val ELSE <<>>
    /\ json = IF kind = "json" THEN val ELSE EmptyJSON
    /\ message = NewMessage
    /\ query = NoQuery
    /\ pos = 1
    /\ tags = <<>>

Init ==
    \/ \E r \in Records : Start("record", r)
    \/ \E b \in Raws : Start("raw", b)
    \/ \E j \in JSONs : Start("json", j)

\* record.toRaw(): the bytes at the positions no write reached are
\* whatever the allocated memory held, any byte each.
ToRaw ==
    /\ cur = "record"
    /\ Len(ops) < MaxOps
    /\ \E mem \in [RecordUnwritten(record) -> 0..255] :
         LET w == RecordToRaw(record, mem)
         IN  /\ cur' = IF w.ok THEN "raw" ELSE "error"
             /\ raw' = IF w.ok THEN w.v ELSE raw
    /\ ops' = Append(ops, "toRaw")
    /\ UNCHANGED <<input, record, json, message, query, pos, tags>>

\* HSKRecord.fromRaw(raw), the static method: a new HSKRecord reads the blob
\* and is returned; a throw returns nothing and the session keeps the
\* record it held.
FromRaw ==
    /\ cur = "raw"
    /\ Len(ops) < MaxOps
    /\ LET r == RecordFromReader(EmptyRecord, raw)
       IN  /\ cur' = IF r.ok THEN "record" ELSE "error"
           /\ record' = IF r.ok THEN r.v.rec ELSE record
           /\ pos' = r.p
           /\ tags' = r.v.tags
    /\ ops' = Append(ops, "fromRaw")
    /\ UNCHANGED <<input, raw, json, message, query>>

\* record.fromRaw(raw), the instance method: the record the session holds
\* reads the blob into itself, and keeps what it read when it throws.
FromRawInto ==
    /\ cur = "raw"
    /\ Len(ops) < MaxOps
    /\ LET r == RecordFromReader(record, raw)
       IN  /\ cur' = IF r.ok THEN "record" ELSE "error"
           /\ record' = r.v.rec
           /\ pos' = r.p
           /\ tags' = r.v.tags
    /\ ops' = Append(ops, "record.fromRaw")
    /\ UNCHANGED <<input, raw, json, message, query>>

\* record.toJSON(name)
ToJSON ==
    /\ cur = "record"
    /\ Len(ops) < MaxOps
    /\ cur' = "json"
    /\ json' = RecordToJSON(record, <<120, 46>>)
    /\ ops' = Append(ops, "toJSON")
    /\ UNCHANGED <<input, record, raw, message, query, pos, tags>>

\* HSKRecord.fromJSON(json), the static method: a new HSKRecord reads the
\* object and is returned; a throw returns nothing and the session keeps the
\* record it held.
FromJSON ==
    /\ cur = "json"
    /\ Len(ops) < MaxOps
    /\ LET r == RecordFromJSON(EmptyRecord, json)
       IN  /\ cur' = IF r.ok THEN "record" ELSE "error"
           /\ record' = IF r.ok THEN r.v ELSE record
    /\ ops' = Append(ops, "fromJSON")
    /\ UNCHANGED <<input, raw, json, message, query, pos, tags>>

\* record.fromJSON(json), the instance method: the record the session holds
\* reads the object into itself, and keeps what it read when it throws.
FromJSONInto ==
    /\ cur = "json"
    /\ Len(ops) < MaxOps
    /\ LET r == RecordFromJSON(record, json)
       IN  /\ cur' = IF r.ok THEN "record" ELSE "error"
           /\ record' = r.v
    /\ ops' = Append(ops, "record.fromJSON")
    /\ UNCHANGED <<input, raw, json, message, query, pos, tags>>

Next == ToRaw \/ FromRaw \/ FromRawInto \/ ToJSON \/ FromJSON \/ FromJSONInto

Spec == Init /\ [][Next]_vars

\* ------------------------------------------------------------------------
\* The DNS specification: a record, given or read back from a blob or a
\* JSON object, is queried once.
\* ------------------------------------------------------------------------

DNSRecords == {[RecordOf(q) EXCEPT !.ttl = 3584] : q \in SeqsUpTo(DOMAIN Items, MaxItems)}

DNSRaws ==
    {h \o Flatten(q) : h \in RawHeaders, q \in SeqsUpTo(RawItems \cup LoneRawItems, 1)}

InitDNS ==
    \/ \E r \in DNSRecords : Start("record", r)
    \/ \E b \in DNSRaws : Start("raw", b)
    \/ \E j \in JSONs : Start("json", j)

\* record.toDNS(name, type, naked)
ToDNS ==
    /\ cur = "record"
    /\ \E name \in Names, type \in QTypes, naked \in BOOLEAN :
          LET m == toDNS(record, name, type, naked)
          IN  /\ query' = [name |-> name, type |-> type, naked |-> naked]
              /\ cur' = IF m.ok THEN "message" ELSE "error"
              /\ message' = IF m.ok THEN m.v ELSE message
    /\ ops' = Append(ops, "toDNS")
    /\ UNCHANGED <<input, record, raw, json, pos, tags>>

\* In the DNS specification a blob or JSON object is only read, by the new
\* record that the session holds: new HSKRecord().fromRaw(raw) and
\* new HSKRecord().fromJSON(json).
ReadRaw == ops = <<>> /\ FromRawInto

ReadJSON == ops = <<>> /\ FromJSONInto

NextDNS == ReadRaw \/ ReadJSON \/ ToDNS

\* The size specification: the records, with those whose writer leaves
\* bytes unwritten, encoded and decoded; a blob or JSON object is read
\* by the static methods or by a new record.
InitSize ==
    \/ \E r \in Records \cup UnwrittenRecords : Start("record", r)
    \/ \E b \in Raws : Start("raw", b)
    \/ \E j \in JSONs : Start("json", j)

NextSize == ToRaw \/ FromRaw \/ ToJSON \/ FromJSON \/ ReadRaw \/ ReadJSON

SpecSize == InitSize /\ [][NextSize]_vars

SpecDNS == InitDNS /\ [][NextDNS]_vars

\* ------------------------------------------------------------------------
\* Properties
\* ------------------------------------------------------------------------

LastOp == IF ops = <<>> THEN "" ELSE ops[Len(ops)]

Count(q, S) == Cardinality({i \in DOMAIN q : q[i] \in S})

\* C1: for every valid record r, decode(encode(r)) succeeds and equals r
\* field for field.
C1_DecodeEncode ==
    (input.kind = "record" /\ ValidRecord(input.val) /\ ops = <<"toRaw", "fromRaw">>)
        => (cur = "record" /\ record = input.val)

\* C2: for every blob b that decode accepts, encode(decode(b)) is byte for
\* byte equal to b.
C2_ByteExact ==
    (input.kind = "raw" /\ ops = <<"fromRaw", "toRaw">>)
        => (cur = "raw" /\ raw = input.val)

\* C3: for every valid record r, fromJSON(r.toJSON(name)) succeeds and
\* equals r field for field.
C3_FromJSONToJSON ==
    (input.kind = "record" /\ ValidRecord(input.val) /\ ops = <<"toJSON", "fromJSON">>)
        => (cur = "record" /\ record = input.val)

\* C4: toDNS on a record obtained from a successful decode or a successful
\* fromJSON returns a message and never throws.
C4_NoErrorPath ==
    (LastOp = "toDNS" /\ input.kind \in {"raw", "json"}) => cur = "message"

\* C5: for a name of more than one label toDNS returns the referral for the
\* last label, whatever the qtype: with ns, authority is toNS then toDS and
\* additional is toNSIP; else with a delegate, answer is the DNAME and
\* authority is toDS; else authority is the SOA then toDS.
C5_Referral ==
    (LastOp = "toDNS" /\ LabelCount(query.name) > 1)
        => LET tld == LastLabel(query.name)
               ds == toDS(record, tld)
           IN  /\ cur = "message"
               /\ IF record.ns # <<>>
                  THEN /\ message.answer = <<>>
                       /\ message.authority = toNS(record, tld, TRUE) \o ds
                       /\ message.additional = toNSIP(record, tld, TRUE)
                  ELSE IF record.delegate # <<>>
                  THEN /\ Len(message.answer) = 1
                       /\ message.answer[1].type = "DNAME"
                       /\ message.answer[1].name = tld
                       /\ message.answer[1].data.target = TargetToDNS(record.delegate[1])
                       /\ message.authority = ds
                  ELSE /\ message.answer = <<>>
                       /\ Len(message.authority) = 1 + Len(ds)
                       /\ message.authority[1].type = "SOA"
                       /\ message.authority[1].name = tld
                       /\ SubSeq(message.authority, 2, Len(message.authority)) = ds

\* C6: every message toDNS returns has qr and ad set and EDNS0 with size
\* 4096 and the DO bit, and aa is set exactly when the queried name has
\* exactly one label.
C6_Flags ==
    (LastOp = "toDNS" /\ cur = "message")
        => /\ message.qr /\ message.ad
           /\ message.edns = [enabled |-> TRUE, size |-> 4096, dok |-> TRUE]
           /\ message.aa <=> (LabelCount(query.name) = 1)

\* The answer of the CNAME fallback: one CNAME for the name, to canonical.
IsCNAMEFallback ==
    /\ cur = "message"
    /\ Len(message.answer) = 1
    /\ message.answer[1].type = "CNAME"
    /\ message.answer[1].name = query.name
    /\ message.answer[1].data.target = TargetToDNS(record.canonical[1])

AQueryWithCanonical ==
    /\ LastOp = "toDNS" /\ query.type = "A" /\ LabelCount(query.name) = 1
    /\ record.canonical # <<>>

\* C7: with canonical set and no INET4 host, an A query on a one-label name
\* returns the CNAME fallback.
C7_CNAMEFallback ==
    (AQueryWithCanonical /\ \A i \in DOMAIN record.hosts : record.hosts[i].type # INET4)
        => IsCNAMEFallback

\* C7 amended: with canonical set to a name target and no INET4, ONION or
\* ONIONNG host, an A query on a one-label name returns the CNAME fallback.
C7_CNAMEFallbackAmended ==
    (/\ AQueryWithCanonical
     /\ record.canonical[1].type \in {INAME, HNAME}
     /\ \A i \in DOMAIN record.hosts :
           record.hosts[i].type \notin {INET4, ONION, ONIONNG})
        => IsCNAMEFallback

\* C7 witness: the fallback taken by a record with an INET6 host.
C7_Witness ==
    /\ AQueryWithCanonical
    /\ record.hosts # <<>>
    /\ \A i \in DOMAIN record.hosts : record.hosts[i].type = INET6
    /\ IsCNAMEFallback

\* C8: a blob whose version byte is not 0 fails to decode with only that
\* byte read, and every decoded record has version 0.
C8_Version ==
    LastOp = "fromRaw"
        => /\ (raw # <<>> /\ raw[1] # 0) => (cur = "error" /\ pos = 2)
           /\ cur = "record" => record.version = 0

\* C8 witness: a version 1 blob with items after the header was rejected.
C8_Witness ==
    /\ LastOp = "fromRaw" /\ raw # <<>> /\ raw[1] = 1 /\ Len(raw) > 6
    /\ cur = "error" /\ pos = 2

\* C9: encoding a record of ttl t and decoding the result yields t & ~63.
C9_TTLQuantized ==
    /\ (input.kind = "record" /\ ops = <<"toRaw", "fromRaw">> /\ cur = "record")
          => record.ttl = input.val.ttl - (input.val.ttl % 64)
    /\ (input.kind = "json" /\ ops = <<"fromJSON", "toRaw", "fromRaw">> /\ cur = "record")
          => record.ttl = input.val.ttl - (input.val.ttl % 64)

CanonicalTags == {INAME, HNAME, CANONICAL}

\* C10: a successful decode has dispatched on at most one canonical-setting
\* tag (INAME, HNAME, CANONICAL) and at most one DELEGATE tag.
C10_AtMostOnce ==
    (LastOp = "fromRaw" /\ cur = "record")
        => /\ Count(tags, CanonicalTags) <= 1
           /\ Count(tags, {DELEGATE}) <= 1
           /\ Len(record.canonical) = Count(tags, CanonicalTags)
           /\ Len(record.delegate) = Count(tags, {DELEGATE})

\* C10 witness: a decode that threw at a second canonical-setting item, with
\* another item read in between.
C10_Witness ==
    /\ LastOp = "fromRaw" /\ cur = "error"
    /\ Len(tags) = 3
    /\ tags[1] \in CanonicalTags /\ tags[2] \notin CanonicalTags
    /\ tags[3] \in CanonicalTags /\ tags[3] # tags[1]

\* The 20 registered tag values.
RegisteredTags == (1..21) \ {4}

\* A blob with an empty table and one top-level item: an unknown type byte
\* followed by one length-prefixed payload.
IsUnknownItemBlob(b) ==
    /\ Len(b) >= 6
    /\ SubSeq(b, 1, 4) = <<0, 0, 0, 0>>
    /\ b[5] \notin RegisteredTags
    /\ b[6] = Len(b) - 6

\* C11: an item 'unknown type byte t, length, payload' decodes to one Extra
\* with type t and that payload, and re-encoding emits the same bytes.
C11_UnknownTagPreserved ==
    (input.kind = "raw" /\ IsUnknownItemBlob(input.val))
        => /\ ops = <<"fromRaw">>
              => /\ cur = "record"
                 /\ record.extra = <<[type |-> input.val[5],
                                      data |-> SubSeq(input.val, 7, Len(input.val))]>>
           /\ ops = <<"fromRaw", "toRaw">> => (cur = "raw" /\ raw = input.val)

\* A record produced by a successful decode or a successful fromJSON.
Produced == LastOp \in {"fromRaw", "fromJSON"} /\ cur = "record"

\* C12: every entry of hosts of a produced record has an address kind.
C12_HostsAreAddresses ==
    Produced => \A i \in DOMAIN record.hosts :
                    record.hosts[i].type \in {INET4, INET6, ONION, ONIONNG}

\* C13: canonical and delegate of a produced record are unset or of a name
\* kind.
C13_NameKinds ==
    Produced => /\ \A i \in DOMAIN record.canonical :
                       record.canonical[i].type \in {INAME, HNAME}
                /\ \A i \in DOMAIN record.delegate :
                       record.delegate[i].type \in {INAME, HNAME}

\* The message sections.
Sections(m) == <<m.answer, m.authority, m.additional>>

\* An inline address among the targets is rendered as its pointer name in a
\* record of the given type and field, with a glue record in additional.
HasPointerAndGlue(t, type, field) ==
    /\ \E i \in DOMAIN message.answer :
          /\ message.answer[i].type = type
          /\ message.answer[i].data[field] = toPointer(t, query.name).v
    /\ \E i \in DOMAIN message.additional :
          /\ message.additional[i].name = toPointer(t, query.name).v
          /\ message.additional[i].data.address = t.target

\* C14: toDNS with naked = true and with naked = false return the same
\* sections (or both throw), and an inline address in ns (NS query) or in a
\* service target (SRV query) is answered as a pointer name with glue.
C14_AlwaysNaked ==
    LastOp = "toDNS"
        => LET other == toDNS(record, query.name, query.type, ~query.naked)
           IN  /\ other.ok <=> (cur = "message")
               /\ cur = "message" => Sections(other.v) = Sections(message)
               /\ (cur = "message" /\ LabelCount(query.name) = 1 /\ query.type = "NS")
                     => \A i \in DOMAIN record.ns :
                           isINET(record.ns[i])
                              => HasPointerAndGlue(record.ns[i], "NS", "ns")
               /\ (cur = "message" /\ LabelCount(query.name) = 1 /\ query.type = "SRV")
                     => \A i \in DOMAIN record.service :
                           isINET(record.service[i].target)
                              => HasPointerAndGlue(record.service[i].target,
                                                   "SRV", "target")

\* C14 witness: an NS query with naked = false on a record with an inline
\* address in ns was answered with glue.
C14_Witness ==
    /\ LastOp = "toDNS" /\ cur = "message"
    /\ ~query.naked /\ query.type = "NS" /\ LabelCount(query.name) = 1
    /\ \E i \in DOMAIN record.ns : isINET(record.ns[i])
    /\ message.additional # <<>>

\* A query of the given type on a one-label name that returned a message.
Answered(type) ==
    /\ LastOp = "toDNS" /\ cur = "message"
    /\ query.type = type /\ LabelCount(query.name) = 1

\* The records of the given types in the answer section, in order.
AnswerOf(types) == SelectSeq(message.answer, LAMBDA rr : rr.type \in types)

\* The answer is exactly the expected records or, when none is expected,
\* holds no record of their types (the fallback fills it).
AnswerIs(expected, types) ==
    /\ AnswerOf(types) = expected
    /\ expected # <<>> => message.answer = expected

AddressKinds == {INET4, INET6}

NameKinds == {INAME, HNAME}

\* C15: an MX query is answered with one MX record per SMTP service whose
\* target is a name or an address, in list order, and additional holds
\* exactly one glue record per SMTP service with an address target, owned
\* by the mx name of that service's MX record.
C15_MX ==
    Answered("MX")
        => LET isMail(x) == x.service = <<115, 109, 116, 112>> /\ x.protocol = <<116, 99, 112>>
               mxName(t) == IF t.type \in AddressKinds THEN toPointer(t, query.name).v
                            ELSE TargetToDNS(t)
               mail == SelectSeq(record.service,
                                 LAMBDA x : isMail(x)
                                            /\ x.target.type \in NameKinds \cup AddressKinds)
               inline == SelectSeq(record.service,
                                   LAMBDA x : isMail(x) /\ x.target.type \in AddressKinds)
               mx == [i \in DOMAIN mail |->
                        [name |-> query.name, type |-> "MX", ttl |-> record.ttl,
                         data |-> [preference |-> mail[i].priority,
                                   mx |-> mxName(mail[i].target)]]]
               glue == [i \in DOMAIN inline |->
                          [name |-> mxName(inline[i].target),
                           type |-> IF inline[i].target.type = INET4 THEN "A" ELSE "AAAA",
                           ttl |-> record.ttl,
                           data |-> [address |-> inline[i].target.target]]]
           IN  /\ AnswerIs(mx, {"MX"})
               /\ message.additional = glue
               /\ \A i \in DOMAIN glue :
                     LET inMail == {j \in DOMAIN mail : mail[j].target.type \in AddressKinds}
                         nth == CHOOSE j \in inMail :
                                    Cardinality({k \in inMail : k <= j}) = i
                     IN  message.answer[nth].data.mx = message.additional[i].name

\* C15 witness: an MX query on a record with an SMTP service and another
\* service, both with an address target, returned one glue record.
C15_Witness ==
    /\ Answered("MX")
    /\ Len(record.service) = 2
    /\ \A i \in DOMAIN record.service : isINET(record.service[i].target)
    /\ Len(message.answer) = 1 /\ message.answer[1].type = "MX"
    /\ Len(message.additional) = 1

\* C16: a TXT query is answered with the TXT records of the non-empty lists
\* among text, url, email, magnet, addr, in that order; text has no
\* sentinel, the others start with theirs.
C16_TXT ==
    Answered("TXT")
        => LET txt(sentinel, list) ==
                   IF list = <<>> THEN <<>>
                   ELSE <<[name |-> query.name, type |-> "TXT", ttl |-> record.ttl,
                           data |-> [txt |-> sentinel \o list]]>>
               magnets == [i \in DOMAIN record.magnet |-> MagnetToString(record.magnet[i])]
               addrs == [i \in DOMAIN record.addr |-> AddrToString(record.addr[i])]
           IN  AnswerIs(txt(<<>>, record.text)
                        \o txt(<<<<104, 115, 107, 58, 117, 114, 108>>>>, record.url)
                        \o txt(<<<<104, 115, 107, 58, 101, 109, 97, 105, 108>>>>,
                               record.email)
                        \o txt(<<<<104, 115, 107, 58, 109, 97, 103, 110, 101, 116>>>>,
                               magnets)
                        \o txt(<<<<104, 115, 107, 58, 97, 100, 100, 114>>>>, addrs),
                        {"TXT"})

\* C16 witness: a TXT query on a record with a text and a url returned two
\* TXT records.
C16_Witness ==
    /\ Answered("TXT")
    /\ record.text # <<>> /\ record.url # <<>>
    /\ Len(message.answer) = 2

\* The answer to an address query: one record per host of the kind, then
\* the Tor TXT record if a host is an onion.
AddressAnswer(type, kind) ==
    LET hs == SelectSeq(record.hosts, LAMBDA t : t.type = kind)
        tor == SelectSeq(record.hosts, LAMBDA t : t.type \in {ONION, ONIONNG})
    IN  [i \in DOMAIN hs |->
            [name |-> query.name, type |-> type, ttl |-> record.ttl,
             data |-> [address |-> hs[i].target]]]
        \o (IF tor = <<>> THEN <<>>
            ELSE <<[name |-> query.name, type |-> "TXT", ttl |-> record.ttl,
                    data |-> [txt |-> <<<<104, 115, 107, 58, 116, 111, 114>>>>
                                      \o [i \in DOMAIN tor |-> tor[i].target]]]>>)

\* C17: an A query is answered with one A record per INET4 host in hosts
\* order, then one Tor TXT record ("hsk:tor" and every onion host) exactly
\* when a host is an onion; AAAA likewise for INET6 hosts.
C17_Addresses ==
    /\ Answered("A") => AnswerIs(AddressAnswer("A", INET4), {"A", "AAAA", "TXT"})
    /\ Answered("AAAA") => AnswerIs(AddressAnswer("AAAA", INET6), {"A", "AAAA", "TXT"})

\* C17 witness: an A query on a record with two onion hosts returned the
\* Tor TXT record alone.
C17_Witness ==
    /\ Answered("A")
    /\ Len(record.hosts) = 2
    /\ \A i \in DOMAIN record.hosts : isTor(record.hosts[i])
    /\ Len(message.answer) = 1 /\ message.answer[1].type = "TXT"

\* C18: when a record has been encoded, every string its sizing and its
\* writing passed to the compressor had been added to the compressor by
\* HSKRecord.compress.
C18_LearnCoversEmit ==
    (LastOp = "toRaw" /\ cur = "raw")
        => RecordStrings(record) \subseteq Range(RecordCompress(record))

\* C19: for every record the writer accepts, getSize with the record's own
\* compressor is the number of bytes toWriter moves the offset by, which is
\* the length of the blob toRaw returns, and the blob holds every byte the
\* writer wrote; an unknown item takes its tag byte, 2 bytes and its data.
C19_SizeAgrees ==
    LastOp = "toRaw"
        => LET c == RecordCompress(record)
               w == RecordToWriter(record, c)
           IN  w.ok => /\ RecordGetSize(record, c) = Ok(Len(w.v), 0)
                       /\ cur = "raw" /\ Len(raw) = Len(w.v)
                       /\ \A i \in DOMAIN w.v : w.v[i] >= 0 => raw[i] = w.v[i]
                       /\ (record = [EmptyRecord EXCEPT !.extra = record.extra]
                             => Len(w.v) = 3 + 1 + Sum([i \in DOMAIN record.extra |->
                                                     1 + 2 + Len(record.extra[i].data)]))

\* C19 witness: a record with an IPv6 host, an unknown item and a magnet
\* whose nin is no hex text has been encoded; the blob has the size getSize
\* gave and holds a byte that no write set.
C19_Witness ==
    /\ LastOp = "toRaw" /\ cur = "raw"
    /\ record.hosts # <<>> /\ record.hosts[1].type = INET6
    /\ record.extra # <<>>
    /\ RecordUnwritten(record) # {}
    /\ RecordGetSize(record, RecordCompress(record)) = Ok(Len(raw), 0)
    /\ \E i \in RecordUnwritten(record) : raw[i] = 196

\* C20: reading back what DS.toWriter wrote for a DS entry of an encoded
\* record yields the same keyTag, algorithm, digestType and digest.
C20_DSRoundTrip ==
    (LastOp = "toRaw" /\ cur = "raw")
        => \A i \in DOMAIN record.ds :
              LET w == DSToWriter(record.ds[i])
                  r == DSFromReader(w.v, 1)
              IN  w.ok /\ r.ok /\ r.p = Len(w.v) + 1 /\ r.v = record.ds[i]

\* C21: reading back what Addr.toWriter wrote for an addr entry of an
\* encoded record, with the decompressor of the record's own table, yields
\* the same currency and address and consumes exactly the bytes written.
C21_AddrRoundTrip ==
    (LastOp = "toRaw" /\ cur = "raw")
        => \A i \in DOMAIN record.addr :
              LET c == RecordCompress(record)
                  w == AddrToWriter(record.addr[i], c)
                  r == AddrFromReader(c, w.v, 1)
              IN  w.ok /\ r.ok /\ r.p = Len(w.v) + 1 /\ r.v = record.addr[i]

\* C22: every message toDNS returns has at least one record in its answer
\* or its authority section.
C22_NeverEmpty ==
    (LastOp = "toDNS" /\ cur = "message")
        => Len(message.answer) + Len(message.authority) > 0

\* C23: in the answer to an ANY query on a one-label name, the SOA's
\* primary NS is the ns of the first NS record of that answer when there is
\* one, and its mbox is the mx of the first MX record that an MX query on
\* the same name returns when there is one.
C23_SOAConsistent ==
    Answered("ANY")
        => LET soa == AnswerOf({"SOA"})
               ns == AnswerOf({"NS"})
               mxq == toDNS(record, query.name, "MX", TRUE)
               mx == IF mxq.ok
                     THEN SelectSeq(mxq.v.answer, LAMBDA rr : rr.type = "MX")
                     ELSE <<>>
           IN  /\ Len(soa) = 1
               /\ ns # <<>> => soa[1].data.ns = ns[1].data.ns
               /\ mx # <<>> => soa[1].data.mbox = mx[1].data.mx

====
